---- MODULE Spec2Model ----
(***************************************************************************)
(* FVariadicStruct: a type-erased single-value container with a small      *)
(* inline buffer (SBO).  The model follows the current sources:            *)
(*   VariadicStruct.h   (src/unnamed/part_002, lines 1-429)                *)
(*   VariadicStruct.cpp (src/Source/VariadicStruct/Private/                *)
(*                       VariadicStruct.cpp, lines 623-1304)               *)
(* A UScriptStruct* is modelled by the struct's name, memory by cells that *)
(* hold an object (type and field values), raw storage or freed storage.   *)
(***************************************************************************)
EXTENDS Integers, Sequences, FiniteSets, TLC

(***************************************************************************)
(* Bounds of the model.                                                    *)
(***************************************************************************)
NumContainers == 2
NumBlocks == 2
MaxVal == 1
MaxAllocs == 2
MaxSkip == 2
MaxSaved == 1
MaxRemoved == 1
MaxProbeSize == 64
MaxLayoutSize == 16

(***************************************************************************)
(* Program constants.                                                      *)
(***************************************************************************)
BUFFER_SIZE == 24
ALIGNOF_FVariadicStruct == 16

Containers == 1..NumContainers
Blocks == 1..NumBlocks

\* The slot of the local container of a factory function (Make's Variadic).
Tmp == NumContainers + 1
Slots == 1..Tmp

(***************************************************************************)
(* The type registry (external): the four structs of the test program.     *)
(* FPlane derives from FVector; its value is FVector's field followed by   *)
(* the field W.                                                            *)
(***************************************************************************)
nullptr == "nullptr"
Types == {"FIntPoint", "FVector", "FTransform", "FPlane"}

\* The struct wrappers a container must not hold.
UnsupportedTypes == {"FVariadicStruct", "FInstancedStruct", "FSharedStruct", "FConstSharedStruct"}

\* User defined structs (UUserDefinedStruct) the editor can reinstance, one
\* placed inline and one on the heap, and the duplicate made of each when it
\* is reinstanced: the duplicate has the layout the values were built with.
UserDefinedStructs == {"FUserStruct", "FUserStruct_Duplicate", "FUserTable", "FUserTable_Duplicate"}

\* UUserDefinedStruct::Status == UDSS_Duplicate.
IsDuplicate(T) == T \in {"FUserStruct_Duplicate", "FUserTable_Duplicate"}

\* UUserDefinedStruct::PrimaryStruct: the struct a duplicate was made of.
PrimaryStruct(T) ==
    CASE T = "FUserStruct_Duplicate" -> "FUserStruct"
      [] T = "FUserTable_Duplicate" -> "FUserTable"
      [] OTHER -> nullptr

GetStructureSize(T) ==
    CASE T = "FIntPoint" -> 8
      [] T = "FVector" -> 24
      [] T = "FTransform" -> 96
      [] T = "FPlane" -> 32
      [] T = "FVariadicStruct" -> 32
      [] T \in {"FInstancedStruct", "FSharedStruct", "FConstSharedStruct"} -> 16
      [] T \in {"FUserStruct", "FUserStruct_Duplicate"} -> 16
      [] T \in {"FUserTable", "FUserTable_Duplicate"} -> 48

GetMinAlignment(T) ==
    CASE T = "FIntPoint" -> 4
      [] T = "FVector" -> 8
      [] T = "FTransform" -> 16
      [] T = "FPlane" -> 16
      [] T = "FVariadicStruct" -> 16
      [] T \in {"FInstancedStruct", "FSharedStruct", "FConstSharedStruct"} -> 8
      [] T \in UserDefinedStructs -> 8

GetSuperStruct(T) == IF T = "FPlane" THEN "FVector" ELSE nullptr

\* UScriptStruct::IsChildOf: T is Base or derives from it.
RECURSIVE IsChildOf(_, _)
IsChildOf(T, Base) ==
    IF T = nullptr THEN FALSE
    ELSE IF T = Base THEN TRUE
    ELSE IsChildOf(GetSuperStruct(T), Base)

\* What the pointer InScriptStruct points at, as far as placement reads it.
UScriptStruct(T) == [StructureSize |-> GetStructureSize(T), MinAlignment |-> GetMinAlignment(T)]

NumFields(T) == IF T = "FPlane" THEN 2 ELSE 1
FieldValues == 0..MaxVal
ValuesOf(T) == [1..NumFields(T) -> FieldValues]
DefaultValue(T) == [i \in 1..NumFields(T) |-> 0]

(***************************************************************************)
(* Memory cells and pointers.                                              *)
(***************************************************************************)
Obj(T, v) == [type |-> T, val |-> v]

\* The cell holds a value the descriptor T can operate on: a value built
\* with T or, for a duplicate, with the struct it duplicates.
IsValueOf(cell, T) == cell.type = T \/ (IsDuplicate(T) /\ cell.type = PrimaryStruct(T))

RawCell == [type |-> "raw", val |-> <<>>]
FreeCell == [type |-> "free", val |-> <<>>]

NullPtr == [kind |-> "null", at |-> 0]
GarbagePtr == [kind |-> "garbage", at |-> 0]
BufPtr(c) == [kind |-> "buf", at |-> c]
HeapPtr(b) == [kind |-> "heap", at |-> b]
ExtPtr == [kind |-> "ext", at |-> 0]

VARIABLES ScriptStruct, StructMemory, StructBuffer, Heap, AllocatedBy, Allocs, Frees, Fault, Ar, lastOp, probe,
          StructureToReinstance, Threads, Storage, Text

vars == <<ScriptStruct, StructMemory, StructBuffer, Heap, AllocatedBy, Allocs, Frees, Fault, Ar, lastOp, probe,
          StructureToReinstance, Threads, Storage, Text>>


(***************************************************************************)
(* Operations are functions on a working copy s of the state.  s.Ext is    *)
(* the caller's struct a source pointer refers to, s.NewBlock the block    *)
(* the allocator returns to the operation's FMemory::Malloc call, s.Stuck  *)
(* records that the allocator could not return it, s.Trace the calls the   *)
(* operation has made so far to FMemory and to the descriptor, and its     *)
(* assignments to ScriptStruct, in program order.  AllocatedBy names, for  *)
(* each allocated block, the container whose call allocated it (0: none).  *)
(***************************************************************************)
Cur(ext, nb) ==
    [ScriptStruct |-> ScriptStruct, StructMemory |-> StructMemory, StructBuffer |-> StructBuffer,
     Heap |-> Heap, AllocatedBy |-> AllocatedBy, Allocs |-> Allocs, Frees |-> Frees, Fault |-> Fault, Ar |-> Ar,
     Ext |-> ext, NewBlock |-> nb, Stuck |-> FALSE, Ret |-> "void", Trace |-> <<>>,
     Buffer |-> Text.Buffer, ValueStr |-> Text.ValueStr]

Now == Cur(RawCell, 1)

Fail(s, f) == IF s.Fault = "none" THEN [s EXCEPT !.Fault = f] ELSE s

\* One entry of s.Trace: the call, the descriptor it is made on, the memory it
\* is made at and, for a copy, the memory copied from; for an allocation the
\* size and the alignment asked for.
Event(ev, T, at, from) == [ev |-> ev, type |-> T, at |-> at, from |-> from, size |-> 0, align |-> 0]

Emit(s, e) == [s EXCEPT !.Trace = Append(@, e)]

Read(s, p) ==
    CASE p.kind = "buf" -> s.StructBuffer[p.at]
      [] p.kind = "heap" -> s.Heap[p.at]
      [] p.kind = "ext" -> s.Ext
      [] OTHER -> FreeCell

\* The fault of dereferencing p, "none" if p points at storage that exists.
AccessFault(s, p) ==
    CASE p.kind = "null" -> "null dereference"
      [] p.kind = "garbage" -> "wild pointer"
      [] p.kind = "heap" /\ s.Heap[p.at] = FreeCell -> "use after free"
      [] OTHER -> "none"

\* StructBuffer and StructMemory share their first bytes: a value stored in
\* the buffer leaves StructMemory reading as part of that value.
Write(s, p, cell) ==
    CASE p.kind = "buf" -> [s EXCEPT !.StructBuffer[p.at] = cell, !.StructMemory[p.at] = GarbagePtr]
      [] p.kind = "heap" -> [s EXCEPT !.Heap[p.at] = cell]
      [] OTHER -> s

(***************************************************************************)
(* FMemory and the descriptor's value operations (external interfaces).    *)
(***************************************************************************)
Malloc(s, Count, Alignment) ==
    IF s.Heap[s.NewBlock] = FreeCell /\ s.Allocs < MaxAllocs
    THEN Emit([s EXCEPT !.Heap[s.NewBlock] = RawCell, !.Allocs = @ + 1],
              [Event("Malloc", nullptr, HeapPtr(s.NewBlock), NullPtr) EXCEPT !.size = Count, !.align = Alignment])
    ELSE [s EXCEPT !.Stuck = TRUE]

Free(s, p) ==
    IF p.kind = "heap" /\ s.Heap[p.at] # FreeCell
    THEN Emit([s EXCEPT !.Heap[p.at] = FreeCell, !.AllocatedBy[p.at] = 0, !.Frees = @ + 1],
              Event("Free", nullptr, p, NullPtr))
    ELSE Fail(s, IF p.kind = "heap" THEN "double free" ELSE "invalid free")

InitializeStruct(s, T, p) ==
    IF T = nullptr THEN Fail(s, "null descriptor")
    ELSE IF AccessFault(s, p) # "none" THEN Fail(s, AccessFault(s, p))
    ELSE IF Read(s, p) # RawCell THEN Fail(s, "construct over a live value")
    ELSE Emit(Write(s, p, Obj(T, DefaultValue(T))), Event("InitializeStruct", T, p, NullPtr))

DestroyStruct(s, T, p) ==
    IF T = nullptr THEN Fail(s, "null descriptor")
    ELSE IF AccessFault(s, p) # "none" THEN Fail(s, AccessFault(s, p))
    ELSE IF ~IsValueOf(Read(s, p), T) THEN Fail(s, "destroy of no value")
    ELSE Emit(Write(s, p, RawCell), Event("DestroyStruct", T, p, NullPtr))

CopyScriptStruct(s, T, dst, src) ==
    IF T = nullptr THEN Fail(s, "null descriptor")
    ELSE IF AccessFault(s, dst) # "none" THEN Fail(s, AccessFault(s, dst))
    ELSE IF AccessFault(s, src) # "none" THEN Fail(s, AccessFault(s, src))
    ELSE IF ~IsValueOf(Read(s, dst), T) \/ ~IsValueOf(Read(s, src), T) THEN Fail(s, "copy of no value")
    ELSE Emit(Write(s, dst, Obj(T, Read(s, src).val)), Event("CopyScriptStruct", T, dst, src))

ClearScriptStruct(s, T, p) ==
    IF T = nullptr THEN Fail(s, "null descriptor")
    ELSE IF AccessFault(s, p) # "none" THEN Fail(s, AccessFault(s, p))
    ELSE IF ~IsValueOf(Read(s, p), T) THEN Fail(s, "clear of no value")
    ELSE Emit(Write(s, p, Obj(T, DefaultValue(T))), Event("ClearScriptStruct", T, p, NullPtr))

CompareScriptStruct(s, T, a, b) ==
    /\ IsValueOf(Read(s, a), T)
    /\ IsValueOf(Read(s, b), T)
    /\ Read(s, a).val = Read(s, b).val

(***************************************************************************)
(* Storage cell: placement and the active memory.                          *)
(***************************************************************************)
\* RequiresMemoryAllocationWith that skips the alignment check when the
\* buffer is at least twice the container's alignment.
RequiresMemoryAllocationWith_SkipWhenLarge(BufferSize, Alignment, InScriptStruct) ==
    IF BufferSize >= Alignment * 2
    THEN InScriptStruct.StructureSize > BufferSize
    ELSE \/ InScriptStruct.StructureSize > BufferSize
         \/ InScriptStruct.MinAlignment > Alignment

\* RequiresMemoryAllocation as it is compiled in a build whose BUFFER_SIZE
\* and alignof(FVariadicStruct) are BufferSize and Alignment.
RequiresMemoryAllocationWith(BufferSize, Alignment, InScriptStruct) ==
    IF BufferSize < Alignment * 2
    THEN InScriptStruct.StructureSize > BufferSize
    ELSE \/ InScriptStruct.StructureSize > BufferSize
         \/ InScriptStruct.MinAlignment > Alignment

\* RequiresMemoryAllocation with the size compared by >=.
RequiresMemoryAllocation_Geq(InScriptStruct) ==
    IF BUFFER_SIZE < ALIGNOF_FVariadicStruct * 2
    THEN InScriptStruct.StructureSize >= BUFFER_SIZE
    ELSE \/ InScriptStruct.StructureSize >= BUFFER_SIZE
         \/ InScriptStruct.MinAlignment > ALIGNOF_FVariadicStruct

RequiresMemoryAllocation(InScriptStruct) ==
    IF BUFFER_SIZE < ALIGNOF_FVariadicStruct * 2
    THEN InScriptStruct.StructureSize > BUFFER_SIZE
    ELSE \/ InScriptStruct.StructureSize > BUFFER_SIZE
         \/ InScriptStruct.MinAlignment > ALIGNOF_FVariadicStruct

TypeRequiresMemoryAllocation(T) ==
    GetStructureSize(T) > BUFFER_SIZE \/ GetMinAlignment(T) > ALIGNOF_FVariadicStruct

\* GetMemory that returns the stored pointer whatever the placement.
GetMemory_StoredPointer(s, c) == s.StructMemory[c]

GetMemory(s, c) ==
    IF s.ScriptStruct[c] # nullptr /\ ~RequiresMemoryAllocation(UScriptStruct(s.ScriptStruct[c]))
    THEN BufPtr(c)
    ELSE s.StructMemory[c]

GetMutableMemory(s, c) ==
    IF s.ScriptStruct[c] # nullptr /\ ~RequiresMemoryAllocation(UScriptStruct(s.ScriptStruct[c]))
    THEN BufPtr(c)
    ELSE s.StructMemory[c]

GetTypeMemory(s, c, T) == IF TypeRequiresMemoryAllocation(T) THEN s.StructMemory[c] ELSE BufPtr(c)

GetMutableTypeMemory(s, c, T) == IF TypeRequiresMemoryAllocation(T) THEN s.StructMemory[c] ELSE BufPtr(c)

GetScriptStruct(s, c) == s.ScriptStruct[c]

IsValid(s, c) == GetScriptStruct(s, c) # nullptr

(***************************************************************************)
(* Lifecycle core.                                                         *)
(***************************************************************************)
\* ValidateScriptStruct that rejects the container's own type only.
ValidateScriptStruct_OnlySelf(InScriptStruct) ==
    InScriptStruct = nullptr \/ InScriptStruct # "FVariadicStruct"

ValidateScriptStruct(InScriptStruct) ==
    InScriptStruct = nullptr \/ \A U \in UnsupportedTypes : U # InScriptStruct

\* Assigning StructMemory makes the pointer the active member of the union:
\* the buffer no longer holds a value.
\* ResetStructData that leaves the descriptor as it is.
ResetStructData_KeepType(s, c, InScriptStruct, InStructMemory) ==
    Emit([(IF s.StructBuffer[c].type \in Types \cup UserDefinedStructs THEN Fail(s, "value overwritten") ELSE s)
             EXCEPT !.StructMemory[c] = InStructMemory,
                    !.StructBuffer[c] = RawCell],
         Event("ResetStructData", InScriptStruct, BufPtr(c), InStructMemory))

\* A value still alive in the buffer is overwritten without being destroyed.
ResetStructData(s, c, InScriptStruct, InStructMemory) ==
    Emit([(IF s.StructBuffer[c].type \in Types \cup UserDefinedStructs THEN Fail(s, "value overwritten") ELSE s)
             EXCEPT !.StructMemory[c] = InStructMemory,
                    !.StructBuffer[c] = RawCell,
                    !.ScriptStruct[c] = InScriptStruct],
         Event("ResetStructData", InScriptStruct, BufPtr(c), InStructMemory))

\* Reset that frees the heap block before it destroys the value.
Reset_FreeFirst(s, c) ==
    LET MemoryPtr == GetMutableMemory(s, c)
        s1 == IF RequiresMemoryAllocation(UScriptStruct(s.ScriptStruct[c]))
              THEN Free(s, MemoryPtr)
              ELSE s
        s2 == DestroyStruct(s1, s.ScriptStruct[c], MemoryPtr)
    IN  IF MemoryPtr # NullPtr
        THEN IF s.ScriptStruct[c] = nullptr
             THEN Fail(s, "null descriptor")
             ELSE ResetStructData(s2, c, nullptr, NullPtr)
        ELSE ResetStructData(s, c, nullptr, NullPtr)

\* Reset that releases the value and leaves StructMemory as it was.
Reset_KeepPointer(s, c) ==
    LET MemoryPtr == GetMutableMemory(s, c)
        s1 == DestroyStruct(s, s.ScriptStruct[c], MemoryPtr)
        s2 == IF RequiresMemoryAllocation(UScriptStruct(s.ScriptStruct[c]))
              THEN Free(s1, MemoryPtr)
              ELSE s1
    IN  IF MemoryPtr # NullPtr
        THEN IF s.ScriptStruct[c] = nullptr
             THEN Fail(s, "null descriptor")
             ELSE ResetStructData(s2, c, nullptr, s.StructMemory[c])
        ELSE ResetStructData(s, c, nullptr, NullPtr)

\* Reset that destroys the value and forgets to free the heap block.
Reset_NoFree(s, c) ==
    LET MemoryPtr == GetMutableMemory(s, c)
        s1 == DestroyStruct(s, s.ScriptStruct[c], MemoryPtr)
    IN  IF MemoryPtr # NullPtr
        THEN IF s.ScriptStruct[c] = nullptr
             THEN Fail(s, "null descriptor")
             ELSE ResetStructData(s1, c, nullptr, NullPtr)
        ELSE ResetStructData(s, c, nullptr, NullPtr)

Reset(s, c) ==
    LET MemoryPtr == GetMutableMemory(s, c)
        s1 == DestroyStruct(s, s.ScriptStruct[c], MemoryPtr)
        s2 == IF RequiresMemoryAllocation(UScriptStruct(s.ScriptStruct[c]))
              THEN Free(s1, MemoryPtr)
              ELSE s1
    IN  IF MemoryPtr # NullPtr
        THEN IF s.ScriptStruct[c] = nullptr
             THEN Fail(s, "null descriptor")
             ELSE ResetStructData(s2, c, nullptr, NullPtr)
        ELSE ResetStructData(s, c, nullptr, NullPtr)

\* InitializeAs that rebuilds the storage even when the type stays the same.
InitializeAs_AlwaysReset(s, c, InScriptStruct, InStructMemory) ==
    IF ~ValidateScriptStruct(InScriptStruct) THEN Fail(s, "unsupported type")
    ELSE LET s1 == Reset(s, c)
             s2 == Emit([s1 EXCEPT !.ScriptStruct[c] = InScriptStruct],
                        Event("ScriptStruct", InScriptStruct, BufPtr(c), NullPtr))
             heap == RequiresMemoryAllocation(UScriptStruct(InScriptStruct))
             s3 == IF heap
                   THEN [Malloc(s2, GetStructureSize(InScriptStruct), GetMinAlignment(InScriptStruct))
                            EXCEPT !.StructMemory[c] = HeapPtr(s2.NewBlock),
                                   !.StructBuffer[c] = RawCell,
                                   !.AllocatedBy[s2.NewBlock] = c]
                   ELSE s2
             MemoryPtr == IF heap THEN HeapPtr(s2.NewBlock) ELSE BufPtr(c)
             s4 == InitializeStruct(s3, InScriptStruct, MemoryPtr)
         IN  IF InScriptStruct # nullptr
             THEN IF InStructMemory # NullPtr
                  THEN CopyScriptStruct(s4, InScriptStruct, MemoryPtr, InStructMemory)
                  ELSE s4
             ELSE s2

\* InitializeAs that allocates with the allocator's default alignment.
InitializeAs_DefaultAlignment(s, c, InScriptStruct, InStructMemory) ==
    IF ~ValidateScriptStruct(InScriptStruct) THEN Fail(s, "unsupported type")
    ELSE IF IsValid(s, c) /\ InScriptStruct = s.ScriptStruct[c]
    THEN IF InStructMemory # NullPtr
         THEN CopyScriptStruct(s, s.ScriptStruct[c], GetMutableMemory(s, c), InStructMemory)
         ELSE ClearScriptStruct(s, s.ScriptStruct[c], GetMutableMemory(s, c))
    ELSE LET s1 == Reset(s, c)
             s2 == Emit([s1 EXCEPT !.ScriptStruct[c] = InScriptStruct],
                        Event("ScriptStruct", InScriptStruct, BufPtr(c), NullPtr))
             heap == RequiresMemoryAllocation(UScriptStruct(InScriptStruct))
             s3 == IF heap
                   THEN [Malloc(s2, GetStructureSize(InScriptStruct), 0)
                            EXCEPT !.StructMemory[c] = HeapPtr(s2.NewBlock),
                                   !.StructBuffer[c] = RawCell,
                                   !.AllocatedBy[s2.NewBlock] = c]
                   ELSE s2
             MemoryPtr == IF heap THEN HeapPtr(s2.NewBlock) ELSE BufPtr(c)
             s4 == InitializeStruct(s3, InScriptStruct, MemoryPtr)
         IN  IF InScriptStruct # nullptr
             THEN IF InStructMemory # NullPtr
                  THEN CopyScriptStruct(s4, InScriptStruct, MemoryPtr, InStructMemory)
                  ELSE s4
             ELSE s2

\* InitializeAs that takes the new type without a Reset of the old value.
InitializeAs_NoReset(s, c, InScriptStruct, InStructMemory) ==
    IF ~ValidateScriptStruct(InScriptStruct) THEN Fail(s, "unsupported type")
    ELSE IF IsValid(s, c) /\ InScriptStruct = s.ScriptStruct[c]
    THEN IF InStructMemory # NullPtr
         THEN CopyScriptStruct(s, s.ScriptStruct[c], GetMutableMemory(s, c), InStructMemory)
         ELSE ClearScriptStruct(s, s.ScriptStruct[c], GetMutableMemory(s, c))
    ELSE LET s2 == Emit([s EXCEPT !.ScriptStruct[c] = InScriptStruct],
                        Event("ScriptStruct", InScriptStruct, BufPtr(c), NullPtr))
             heap == RequiresMemoryAllocation(UScriptStruct(InScriptStruct))
             s3 == IF heap
                   THEN [Malloc(s2, GetStructureSize(InScriptStruct), GetMinAlignment(InScriptStruct))
                            EXCEPT !.StructMemory[c] = HeapPtr(s2.NewBlock),
                                   !.StructBuffer[c] = RawCell,
                                   !.AllocatedBy[s2.NewBlock] = c]
                   ELSE s2
             MemoryPtr == IF heap THEN HeapPtr(s2.NewBlock) ELSE BufPtr(c)
             s4 == InitializeStruct(s3, InScriptStruct, MemoryPtr)
         IN  IF InScriptStruct # nullptr
             THEN IF InStructMemory # NullPtr
                  THEN CopyScriptStruct(s4, InScriptStruct, MemoryPtr, InStructMemory)
                  ELSE s4
             ELSE s2

\* The checkf on ValidateScriptStruct ends the program.
InitializeAs(s, c, InScriptStruct, InStructMemory) ==
    IF ~ValidateScriptStruct(InScriptStruct) THEN Fail(s, "unsupported type")
    ELSE IF IsValid(s, c) /\ InScriptStruct = s.ScriptStruct[c]
    THEN IF InStructMemory # NullPtr
         THEN CopyScriptStruct(s, s.ScriptStruct[c], GetMutableMemory(s, c), InStructMemory)
         ELSE ClearScriptStruct(s, s.ScriptStruct[c], GetMutableMemory(s, c))
    ELSE LET s1 == Reset(s, c)
             s2 == Emit([s1 EXCEPT !.ScriptStruct[c] = InScriptStruct],
                        Event("ScriptStruct", InScriptStruct, BufPtr(c), NullPtr))
             heap == RequiresMemoryAllocation(UScriptStruct(InScriptStruct))
             s3 == IF heap
                   THEN [Malloc(s2, GetStructureSize(InScriptStruct), GetMinAlignment(InScriptStruct))
                            EXCEPT !.StructMemory[c] = HeapPtr(s2.NewBlock),
                                   !.StructBuffer[c] = RawCell,
                                   !.AllocatedBy[s2.NewBlock] = c]
                   ELSE s2
             MemoryPtr == IF heap THEN HeapPtr(s2.NewBlock) ELSE BufPtr(c)
             s4 == InitializeStruct(s3, InScriptStruct, MemoryPtr)
         IN  IF InScriptStruct # nullptr
             THEN IF InStructMemory # NullPtr
                  THEN CopyScriptStruct(s4, InScriptStruct, MemoryPtr, InStructMemory)
                  ELSE s4
             ELSE s2

\* InitializeAs<T> that forgets ScriptStruct = InScriptStruct.
InitializeAsT_NoType(s, c, T, InArgs) ==
    IF T = s.ScriptStruct[c]
    THEN LET MemoryPtr == IF TypeRequiresMemoryAllocation(T) THEN s.StructMemory[c] ELSE BufPtr(c)
             s1 == DestroyStruct(s, T, MemoryPtr)
         IN  IF AccessFault(s1, MemoryPtr) # "none" THEN Fail(s1, AccessFault(s1, MemoryPtr))
             ELSE Emit(Write(s1, MemoryPtr, Obj(T, InArgs)), Event("Construct", T, MemoryPtr, NullPtr))
    ELSE LET s1 == Reset(s, c)
             s3 == IF TypeRequiresMemoryAllocation(T)
                   THEN [Malloc(s1, GetStructureSize(T), GetMinAlignment(T))
                            EXCEPT !.StructMemory[c] = HeapPtr(s1.NewBlock),
                                   !.StructBuffer[c] = RawCell,
                                   !.AllocatedBy[s1.NewBlock] = c]
                   ELSE s1
             MemoryPtr == IF TypeRequiresMemoryAllocation(T) THEN HeapPtr(s1.NewBlock) ELSE BufPtr(c)
         IN  IF AccessFault(s3, MemoryPtr) # "none" THEN Fail(s3, AccessFault(s3, MemoryPtr))
             ELSE Emit(Write(s3, MemoryPtr, Obj(T, InArgs)), Event("Construct", T, MemoryPtr, NullPtr))

\* The typed InitializeAs<T>(args) that never reuses the memory.
InitializeAsT_AlwaysReset(s, c, T, InArgs) ==
    LET s1 == Reset(s, c)
        s2 == Emit([s1 EXCEPT !.ScriptStruct[c] = T], Event("ScriptStruct", T, BufPtr(c), NullPtr))
        s3 == IF TypeRequiresMemoryAllocation(T)
              THEN [Malloc(s2, GetStructureSize(T), GetMinAlignment(T))
                       EXCEPT !.StructMemory[c] = HeapPtr(s2.NewBlock),
                              !.StructBuffer[c] = RawCell,
                              !.AllocatedBy[s2.NewBlock] = c]
              ELSE s2
        MemoryPtr == IF TypeRequiresMemoryAllocation(T) THEN HeapPtr(s2.NewBlock) ELSE BufPtr(c)
    IN  IF AccessFault(s3, MemoryPtr) # "none" THEN Fail(s3, AccessFault(s3, MemoryPtr))
        ELSE Emit(Write(s3, MemoryPtr, Obj(T, InArgs)), Event("Construct", T, MemoryPtr, NullPtr))

\* The typed InitializeAs<T>(args): constructs T(InArgs) in place.
InitializeAsT(s, c, T, InArgs) ==
    IF T = s.ScriptStruct[c]
    THEN LET MemoryPtr == IF TypeRequiresMemoryAllocation(T) THEN s.StructMemory[c] ELSE BufPtr(c)
             s1 == DestroyStruct(s, T, MemoryPtr)
         IN  IF AccessFault(s1, MemoryPtr) # "none" THEN Fail(s1, AccessFault(s1, MemoryPtr))
             ELSE Emit(Write(s1, MemoryPtr, Obj(T, InArgs)), Event("Construct", T, MemoryPtr, NullPtr))
    ELSE LET s1 == Reset(s, c)
             s2 == Emit([s1 EXCEPT !.ScriptStruct[c] = T], Event("ScriptStruct", T, BufPtr(c), NullPtr))
             s3 == IF TypeRequiresMemoryAllocation(T)
                   THEN [Malloc(s2, GetStructureSize(T), GetMinAlignment(T))
                            EXCEPT !.StructMemory[c] = HeapPtr(s2.NewBlock),
                                   !.StructBuffer[c] = RawCell,
                                   !.AllocatedBy[s2.NewBlock] = c]
                   ELSE s2
             MemoryPtr == IF TypeRequiresMemoryAllocation(T) THEN HeapPtr(s2.NewBlock) ELSE BufPtr(c)
         IN  IF AccessFault(s3, MemoryPtr) # "none" THEN Fail(s3, AccessFault(s3, MemoryPtr))
             ELSE Emit(Write(s3, MemoryPtr, Obj(T, InArgs)), Event("Construct", T, MemoryPtr, NullPtr))


(***************************************************************************)
(* Constructors, assignment operators, destructor and factories.  A        *)
(* constructor runs on a slot in the state its default member initializers *)
(* leave (Fresh).                                                          *)
(***************************************************************************)
Fresh(s, c) == s.ScriptStruct[c] = nullptr /\ s.StructMemory[c] = NullPtr

CopyConstruct(s, c, InOther) ==
    InitializeAs(s, c, GetScriptStruct(s, InOther), GetMemory(s, InOther))

\* Move construction that takes the heap block and leaves the source as it is.
MoveConstruct_KeepSource(s, c, InOther) ==
    IF s.ScriptStruct[InOther] # nullptr /\ ~RequiresMemoryAllocation(UScriptStruct(s.ScriptStruct[InOther]))
    THEN Reset(InitializeAs(s, c, s.ScriptStruct[InOther], GetMemory(s, InOther)), InOther)
    ELSE ResetStructData(s, c, s.ScriptStruct[InOther], s.StructMemory[InOther])

MoveConstruct(s, c, InOther) ==
    IF s.ScriptStruct[InOther] # nullptr /\ ~RequiresMemoryAllocation(UScriptStruct(s.ScriptStruct[InOther]))
    THEN Reset(InitializeAs(s, c, s.ScriptStruct[InOther], GetMemory(s, InOther)), InOther)
    ELSE ResetStructData(ResetStructData(s, c, s.ScriptStruct[InOther], s.StructMemory[InOther]),
                         InOther, nullptr, NullPtr)

\* Copy assignment without the test for self-assignment.
CopyAssign_NoSelfCheck(s, c, InOther) ==
    InitializeAs(s, c, GetScriptStruct(s, InOther), GetMemory(s, InOther))

\* Copy assignment that copies the members instead of the value.
CopyAssign_Shallow(s, c, InOther) ==
    IF c # InOther
    THEN LET s1 == Reset(s, c)
         IN  ResetStructData(s1, c, s1.ScriptStruct[InOther], s1.StructMemory[InOther])
    ELSE s

CopyAssign(s, c, InOther) ==
    IF c # InOther
    THEN InitializeAs(s, c, GetScriptStruct(s, InOther), GetMemory(s, InOther))
    ELSE s

\* Move assignment that copies the value and resets the source whatever the
\* source's placement.
MoveAssign_AlwaysCopy(s, c, InOther) ==
    IF c # InOther
    THEN Reset(InitializeAs(s, c, s.ScriptStruct[InOther], GetMemory(s, InOther)), InOther)
    ELSE s

\* Move assignment that leaves an inline-placed source as it is.
MoveAssign_KeepSource(s, c, InOther) ==
    IF c # InOther
    THEN IF s.ScriptStruct[InOther] # nullptr /\ ~RequiresMemoryAllocation(UScriptStruct(s.ScriptStruct[InOther]))
         THEN InitializeAs(s, c, s.ScriptStruct[InOther], GetMemory(s, InOther))
         ELSE LET s1 == Reset(s, c)
              IN  ResetStructData(ResetStructData(s1, c, s1.ScriptStruct[InOther], s1.StructMemory[InOther]),
                                  InOther, nullptr, NullPtr)
    ELSE s

MoveAssign(s, c, InOther) ==
    IF c # InOther
    THEN IF s.ScriptStruct[InOther] # nullptr /\ ~RequiresMemoryAllocation(UScriptStruct(s.ScriptStruct[InOther]))
         THEN Reset(InitializeAs(s, c, s.ScriptStruct[InOther], GetMemory(s, InOther)), InOther)
         ELSE LET s1 == Reset(s, c)
              IN  ResetStructData(ResetStructData(s1, c, s1.ScriptStruct[InOther], s1.StructMemory[InOther]),
                                  InOther, nullptr, NullPtr)
    ELSE s

\* A destructor that clears the members and does not call Reset.
Destructor_MembersOnly(s, c) == ResetStructData(s, c, nullptr, NullPtr)

Destructor(s, c) == Reset(s, c)

\* return Variadic: with the copy elided the local is the result itself,
\* otherwise the result is move-constructed from it and the local destroyed.
Make(s, c, T, InStruct, elide) ==
    IF elide
    THEN InitializeAsT(s, c, T, InStruct)
    ELSE Destructor(MoveConstruct(InitializeAsT(s, Tmp, T, InStruct), c, Tmp), Tmp)

MakeScriptStruct(s, c, InScriptStruct, InStructMemory, elide) ==
    IF elide
    THEN InitializeAs(s, c, InScriptStruct, InStructMemory)
    ELSE Destructor(MoveConstruct(InitializeAs(s, Tmp, InScriptStruct, InStructMemory), c, Tmp), Tmp)

(***************************************************************************)
(* Typed accessors.  GetTypedPtr reinterprets the memory as T: the view is *)
(* T's slice of the object there, or garbage if no such object is there.   *)
(***************************************************************************)
GarbageCell == [type |-> "garbage", val |-> <<>>]
AssertCell == [type |-> "assert", val |-> <<>>]

GetTypedPtr(s, T, MemoryPtr) ==
    IF AccessFault(s, MemoryPtr) # "none" THEN GarbageCell
    ELSE IF Read(s, MemoryPtr).type \in Types /\ IsChildOf(Read(s, MemoryPtr).type, T)
         THEN Obj(T, SubSeq(Read(s, MemoryPtr).val, 1, NumFields(T)))
         ELSE GarbageCell

\* IsTypeOf that accepts the exact type only, in both modes.
IsTypeOf_ExactOnly(s, c, T, bExactType) == T = s.ScriptStruct[c]

IsTypeOf(s, c, T, bExactType) ==
    \/ T = s.ScriptStruct[c]
    \/ (~bExactType /\ s.ScriptStruct[c] # nullptr /\ IsChildOf(s.ScriptStruct[c], T))

\* GetValuePtr that resolves the memory of a base type from the base type.
GetValuePtr_TypeMemory(s, c, T, bExactType) ==
    IF s.ScriptStruct[c] = T THEN GetTypeMemory(s, c, T)
    ELSE IF ~bExactType /\ s.ScriptStruct[c] # nullptr /\ IsChildOf(s.ScriptStruct[c], T)
         THEN GetTypeMemory(s, c, T)
         ELSE NullPtr

GetValuePtr(s, c, T, bExactType) ==
    IF s.ScriptStruct[c] = T THEN GetTypeMemory(s, c, T)
    ELSE IF ~bExactType /\ s.ScriptStruct[c] # nullptr /\ IsChildOf(s.ScriptStruct[c], T)
         THEN GetMemory(s, c)
         ELSE NullPtr

\* GetMutableValuePtr without the type check.
GetMutableValuePtr_NoTypeCheck(s, c, T, bExactType) == GetMutableTypeMemory(s, c, T)

GetMutableValuePtr(s, c, T, bExactType) ==
    IF s.ScriptStruct[c] = T THEN GetMutableTypeMemory(s, c, T)
    ELSE IF ~bExactType /\ s.ScriptStruct[c] # nullptr /\ IsChildOf(s.ScriptStruct[c], T)
         THEN GetMutableMemory(s, c)
         ELSE NullPtr

\* GetValue whose exact mode takes a derived struct too.
GetValue_NoExactCheck(s, c, T, bExactType) ==
    IF s.ScriptStruct[c] # nullptr /\ IsChildOf(s.ScriptStruct[c], T)
    THEN GetTypedPtr(s, T, GetMemory(s, c))
    ELSE AssertCell

GetValue(s, c, T, bExactType) ==
    IF bExactType \/ T = s.ScriptStruct[c]
    THEN IF ~bExactType \/ T = s.ScriptStruct[c]
         THEN GetTypedPtr(s, T, GetTypeMemory(s, c, T))
         ELSE AssertCell
    ELSE IF s.ScriptStruct[c] # nullptr /\ IsChildOf(s.ScriptStruct[c], T)
         THEN GetTypedPtr(s, T, GetMemory(s, c))
         ELSE AssertCell

GetMutableValue(s, c, T, bExactType) ==
    IF bExactType \/ T = s.ScriptStruct[c]
    THEN IF ~bExactType \/ T = s.ScriptStruct[c]
         THEN GetTypedPtr(s, T, GetMutableTypeMemory(s, c, T))
         ELSE AssertCell
    ELSE IF s.ScriptStruct[c] # nullptr /\ IsChildOf(s.ScriptStruct[c], T)
         THEN GetTypedPtr(s, T, GetMutableMemory(s, c))
         ELSE AssertCell

\* Identical that accepts a subtype and compares the common base.
Identical_Lenient(s, c, Other) ==
    IF s.ScriptStruct[c] # nullptr /\ s.ScriptStruct[Other] # nullptr
       /\ IsChildOf(s.ScriptStruct[c], s.ScriptStruct[Other])
    THEN GetTypedPtr(s, s.ScriptStruct[Other], GetMemory(s, c))
            = GetTypedPtr(s, s.ScriptStruct[Other], GetMemory(s, Other))
    ELSE FALSE

Identical(s, c, Other) ==
    IF s.ScriptStruct[c] # nullptr /\ s.ScriptStruct[c] = s.ScriptStruct[Other]
    THEN CompareScriptStruct(s, s.ScriptStruct[c], GetMemory(s, c), GetMemory(s, Other))
    ELSE FALSE

OperatorEq(s, c, Other) == Identical(s, c, Other)

OperatorNe(s, c, Other) == ~Identical(s, c, Other)


(***************************************************************************)
(* FArchive (external): a byte stream with a cursor.  A read past the end  *)
(* yields zeros and sets the archive's error flag.                         *)
(***************************************************************************)
\* Ar.log remembers, for each record written, its offset, what the saved
\* container held and the defaults of the call.  Ar.customVer is what
\* Ar.CustomVer(InstancedStructGuid) returns: -1 when the archive does not
\* carry the custom version of FInstancedStruct.
EmptyArchive ==
    [data |-> <<>>, pos |-> 0, loading |-> FALSE, error |-> FALSE, log |-> <<>>, customVer |-> -1]

Tell(s) == s.Ar.pos

Seek(s, InPos) ==
    [s EXCEPT !.Ar.pos = InPos,
              !.Ar.error = @ \/ InPos < 0 \/ InPos > Len(s.Ar.data)]

ArWrite(s, cells) ==
    [s EXCEPT !.Ar.data = SubSeq(@, 1, s.Ar.pos) \o cells \o SubSeq(@, s.Ar.pos + Len(cells) + 1, Len(@)),
              !.Ar.pos = @ + Len(cells)]

ArPeek(ar, n) == [i \in 1..n |-> IF ar.pos + i <= Len(ar.data) THEN ar.data[ar.pos + i] ELSE 0]

ArSkip(s, n) ==
    [s EXCEPT !.Ar.pos = @ + n,
              !.Ar.error = @ \/ s.Ar.pos + n > Len(s.Ar.data)]

\* int32, little endian, two's complement.
Int32ToBytes(n) ==
    <<n % 256, (n \div 256) % 256, (n \div 65536) % 256, (n \div 16777216) % 256>>

BytesToInt32(b) ==
    b[1] + 256 * b[2] + 65536 * b[3] + 16777216 * (IF b[4] >= 128 THEN b[4] - 256 ELSE b[4])

\* Ar << UScriptStruct*: the reference is the struct's index in the name
\* table, 0 for nullptr.  FRemovedStruct names a struct that no longer
\* exists: a reference to it resolves to nullptr.
TypeNames ==
    <<"FIntPoint", "FVector", "FTransform", "FPlane", "FRemovedStruct",
      "FVariadicStruct", "FInstancedStruct", "FSharedStruct", "FConstSharedStruct",
      "FUserStruct", "FUserStruct_Duplicate", "FUserTable", "FUserTable_Duplicate">>

TypeRef(T) == IF T = nullptr THEN 0 ELSE CHOOSE i \in 1..Len(TypeNames) : TypeNames[i] = T

RefName(ref) == IF ref \in 1..Len(TypeNames) THEN TypeNames[ref] ELSE nullptr

ResolveTypeRef(ref) ==
    IF ref \in 1..Len(TypeNames) /\ TypeNames[ref] \in Types \cup UnsupportedTypes \cup UserDefinedStructs
    THEN TypeNames[ref]
    ELSE nullptr

(***************************************************************************)
(* UScriptStruct::SerializeItem (external): tagged fields, each a field    *)
(* index and its value, ended by the tag 0.  Saving writes the fields that *)
(* differ from the defaults, every field when there are no defaults;       *)
(* loading assigns the fields the stream holds.                            *)
(***************************************************************************)
RECURSIVE TaggedFields(_, _, _, _)
TaggedFields(val, hasDefaults, defaults, i) ==
    IF i > Len(val) THEN <<0>>
    ELSE (IF hasDefaults /\ val[i] = defaults[i] THEN <<>> ELSE <<i, val[i]>>)
         \o TaggedFields(val, hasDefaults, defaults, i + 1)

RECURSIVE ReadTaggedFields(_, _, _)
ReadTaggedFields(ar, pos, val) ==
    IF pos >= Len(ar.data) THEN [val |-> val, pos |-> pos + 1, error |-> TRUE]
    ELSE IF ar.data[pos + 1] = 0 THEN [val |-> val, pos |-> pos + 1, error |-> ar.error]
    ELSE IF pos + 1 >= Len(ar.data) THEN [val |-> val, pos |-> pos + 2, error |-> TRUE]
    ELSE ReadTaggedFields(ar, pos + 2,
                          IF ar.data[pos + 1] \in 1..Len(val)
                          THEN [val EXCEPT ![ar.data[pos + 1]] = ar.data[pos + 2]]
                          ELSE val)

SerializeItem(s, T, MemoryPtr, Defaults) ==
    IF T = nullptr THEN Fail(s, "null descriptor")
    ELSE IF AccessFault(s, MemoryPtr) # "none" THEN Fail(s, AccessFault(s, MemoryPtr))
    ELSE IF ~IsValueOf(Read(s, MemoryPtr), T) THEN Fail(s, "serialize of no value")
    ELSE IF s.Ar.loading
         THEN LET r == ReadTaggedFields(s.Ar, s.Ar.pos, Read(s, MemoryPtr).val)
              IN  Emit([Write(s, MemoryPtr, Obj(T, r.val)) EXCEPT !.Ar.pos = r.pos, !.Ar.error = r.error],
                       Event("SerializeItem", T, MemoryPtr, Defaults))
         ELSE IF Defaults # NullPtr /\ ~IsValueOf(Read(s, Defaults), T) THEN Fail(s, "defaults of another type")
         ELSE Emit(ArWrite(s, TaggedFields(Read(s, MemoryPtr).val, Defaults # NullPtr,
                                           Read(s, Defaults).val, 1)),
                   Event("SerializeItem", T, MemoryPtr, Defaults))

(***************************************************************************)
(* Serialization codec.  StructDefaults is nullptr (NoDefaults) or a view: *)
(* its struct (nullptr for an empty view) and its memory, the caller's.    *)
(***************************************************************************)
NoDefaults == [type |-> "nodefaults", val |-> <<>>]
EmptyView == [type |-> nullptr, val |-> <<>>]

ViewScriptStruct(StructDefaults) == StructDefaults.type

ViewMemory(StructDefaults) == IF StructDefaults.type = nullptr THEN NullPtr ELSE ExtPtr

\* Ar.Seek(Ar.Tell() + SerialSize).
SkipSerialSize(s, SerialSize) == Seek(s, Tell(s) + SerialSize)

\* LoadValue that does not skip the payload of a struct it cannot load.
LoadValue_NoSkip(s, c, SerialSize, Defaults) ==
    IF GetMutableMemory(s, c) # NullPtr
    THEN SerializeItem(s, s.ScriptStruct[c], GetMutableMemory(s, c), Defaults)
    ELSE s

\* Serialize, loading: "Serialize the actual value", or skip it.
LoadValue(s, c, SerialSize, Defaults) ==
    IF GetMutableMemory(s, c) # NullPtr
    THEN SerializeItem(s, s.ScriptStruct[c], GetMutableMemory(s, c), Defaults)
    ELSE IF SerialSize > 0
         THEN SkipSerialSize(s, SerialSize)
         ELSE s

\* SerializeLoading that takes mismatching defaults and leaves the cursor at
\* the payload.
SerializeLoading_NoMismatchSkip(s, c, StructDefaults) ==
    LET SerializedScriptStruct == ResolveTypeRef(ArPeek(s.Ar, 1)[1])
        s1 == ArSkip(s, 1)
        SerialSize == BytesToInt32(ArPeek(s1.Ar, 4))
        s2 == ArSkip(s1, 4)
        Defaults == IF StructDefaults # NoDefaults THEN ViewMemory(StructDefaults) ELSE NullPtr
    IN  IF StructDefaults # NoDefaults /\ ViewScriptStruct(StructDefaults) # SerializedScriptStruct
        THEN [InitializeAs(s2, c, ViewScriptStruct(StructDefaults), ViewMemory(StructDefaults))
                 EXCEPT !.Ret = "true"]
        ELSE [LoadValue(IF StructDefaults # NoDefaults \/ s2.ScriptStruct[c] # SerializedScriptStruct
                        THEN InitializeAs(s2, c, SerializedScriptStruct, Defaults)
                        ELSE s2,
                        c, SerialSize, Defaults) EXCEPT !.Ret = "true"]

\* SerializeLoading that initializes the storage on every load.
SerializeLoading_AlwaysInit(s, c, StructDefaults) ==
    LET SerializedScriptStruct == ResolveTypeRef(ArPeek(s.Ar, 1)[1])
        s1 == ArSkip(s, 1)
        SerialSize == BytesToInt32(ArPeek(s1.Ar, 4))
        s2 == ArSkip(s1, 4)
        Defaults == IF StructDefaults # NoDefaults THEN ViewMemory(StructDefaults) ELSE NullPtr
    IN  IF StructDefaults # NoDefaults /\ ViewScriptStruct(StructDefaults) # SerializedScriptStruct
        THEN [SkipSerialSize(InitializeAs(s2, c, ViewScriptStruct(StructDefaults), ViewMemory(StructDefaults)),
                             SerialSize) EXCEPT !.Ret = "true"]
        ELSE [LoadValue(InitializeAs(s2, c, SerializedScriptStruct, Defaults),
                        c, SerialSize, Defaults) EXCEPT !.Ret = "true"]

\* SerializeLoading that initializes only when defaults are given.
SerializeLoading_NoInit(s, c, StructDefaults) ==
    LET SerializedScriptStruct == ResolveTypeRef(ArPeek(s.Ar, 1)[1])
        s1 == ArSkip(s, 1)
        SerialSize == BytesToInt32(ArPeek(s1.Ar, 4))
        s2 == ArSkip(s1, 4)
        Defaults == IF StructDefaults # NoDefaults THEN ViewMemory(StructDefaults) ELSE NullPtr
    IN  IF StructDefaults # NoDefaults /\ ViewScriptStruct(StructDefaults) # SerializedScriptStruct
        THEN [SkipSerialSize(InitializeAs(s2, c, ViewScriptStruct(StructDefaults), ViewMemory(StructDefaults)),
                             SerialSize) EXCEPT !.Ret = "true"]
        ELSE [LoadValue(IF StructDefaults # NoDefaults
                        THEN InitializeAs(s2, c, SerializedScriptStruct, Defaults)
                        ELSE s2,
                        c, SerialSize, Defaults) EXCEPT !.Ret = "true"]

\* Serialize, Ar.IsLoading().
SerializeLoading(s, c, StructDefaults) ==
    LET SerializedScriptStruct == ResolveTypeRef(ArPeek(s.Ar, 1)[1])
        s1 == ArSkip(s, 1)
        SerialSize == BytesToInt32(ArPeek(s1.Ar, 4))
        s2 == ArSkip(s1, 4)
        Defaults == IF StructDefaults # NoDefaults THEN ViewMemory(StructDefaults) ELSE NullPtr
    IN  IF StructDefaults # NoDefaults /\ ViewScriptStruct(StructDefaults) # SerializedScriptStruct
        THEN [SkipSerialSize(InitializeAs(s2, c, ViewScriptStruct(StructDefaults), ViewMemory(StructDefaults)),
                             SerialSize) EXCEPT !.Ret = "true"]
        ELSE [LoadValue(IF StructDefaults # NoDefaults \/ s2.ScriptStruct[c] # SerializedScriptStruct
                        THEN InitializeAs(s2, c, SerializedScriptStruct, Defaults)
                        ELSE s2,
                        c, SerialSize, Defaults) EXCEPT !.Ret = "true"]

\* WriteSerialSize that measures from the reserved buffer instead of from the
\* start of the value.
WriteSerialSize_FromSizeOffset(s, SizeOffset, InitialOffset) ==
    LET FinalOffset == Tell(s)
        SerialSize == FinalOffset - SizeOffset
    IN  Seek(ArWrite(Seek(s, SizeOffset), Int32ToBytes(SerialSize)), FinalOffset)

\* Serialize, saving: the total serialized size is written to the reserved
\* buffer and the offset restored.
WriteSerialSize(s, SizeOffset, InitialOffset) ==
    LET FinalOffset == Tell(s)
        SerialSize == FinalOffset - InitialOffset
    IN  Seek(ArWrite(Seek(s, SizeOffset), Int32ToBytes(SerialSize)), FinalOffset)

\* SaveValue that writes the container's descriptor whatever its status.
SaveValue_OwnType(s, c, Defaults) ==
    LET s2 == ArWrite(s, <<TypeRef(s.ScriptStruct[c])>>)
        SizeOffset == Tell(s2)
        s3 == ArWrite(s2, Int32ToBytes(0))
        InitialOffset == Tell(s3)
    IN  WriteSerialSize(IF GetMutableMemory(s3, c) # NullPtr
                        THEN SerializeItem(s3, s3.ScriptStruct[c], GetMutableMemory(s3, c), Defaults)
                        ELSE s3,
                        SizeOffset, InitialOffset)

\* Serialize, saving: the type (of a duplicated user defined struct, the
\* primary type), the reserved SerialSize and the value.
SaveValue(s, c, Defaults) ==
    LET s2 == ArWrite(s, <<TypeRef(IF s.ScriptStruct[c] \in UserDefinedStructs /\ IsDuplicate(s.ScriptStruct[c])
                                      /\ PrimaryStruct(s.ScriptStruct[c]) # nullptr
                                   THEN PrimaryStruct(s.ScriptStruct[c])
                                   ELSE s.ScriptStruct[c])>>)
        SizeOffset == Tell(s2)
        s3 == ArWrite(s2, Int32ToBytes(0))
        InitialOffset == Tell(s3)
    IN  WriteSerialSize(IF GetMutableMemory(s3, c) # NullPtr
                        THEN SerializeItem(s3, s3.ScriptStruct[c], GetMutableMemory(s3, c), Defaults)
                        ELSE s3,
                        SizeOffset, InitialOffset)

\* Saving that writes the container as it is, whatever the defaults.
SerializeSaving_KeepValue(s, c, StructDefaults) ==
    [SaveValue(s, c, IF StructDefaults # NoDefaults /\ ViewScriptStruct(StructDefaults) = s.ScriptStruct[c]
                     THEN ViewMemory(StructDefaults)
                     ELSE NullPtr)
        EXCEPT !.Ret = "true"]

\* Serialize, Ar.IsSaving().
SerializeSaving(s, c, StructDefaults) ==
    [SaveValue(IF StructDefaults # NoDefaults /\ ViewScriptStruct(StructDefaults) # s.ScriptStruct[c]
               THEN InitializeAs(s, c, ViewScriptStruct(StructDefaults), ViewMemory(StructDefaults))
               ELSE s,
               c, IF StructDefaults # NoDefaults THEN ViewMemory(StructDefaults) ELSE NullPtr)
        EXCEPT !.Ret = "true"]

Serialize(s, c, StructDefaults) ==
    IF s.Ar.loading
    THEN SerializeLoading(s, c, StructDefaults)
    ELSE SerializeSaving(s, c, StructDefaults)

(***************************************************************************)
(* AddStructReferencedObjects: the container reports its descriptor and    *)
(* the references of its value to the collector; in the editor the walk    *)
(* also reinstances a user defined struct.  StructureToReinstance is what  *)
(* UE::StructUtils::Private::GetStructureToReinstantiate returns.          *)
(***************************************************************************)
\* Serialize(ReaderProxy): the bytes just written are read back; the
\* archive of the walk itself is none of the two.
ReinstanceRead(s, c, OuterAr) ==
    [Serialize([s EXCEPT !.Ar.loading = TRUE, !.Ar.pos = 0], c, NoDefaults) EXCEPT !.Ar = OuterAr, !.Ret = "void"]

\* Serialize(WriterProxy) into Data, then Serialize(ReaderProxy) from it.
Reinstantiate(s, c) == ReinstanceRead(Serialize([s EXCEPT !.Ar = EmptyArchive], c, NoDefaults), c, s.Ar)

\* Collector.AddReferencedObject, Collector.AddPropertyReferencesWithStructARO.
ReportReferences(s, c) ==
    IF GetMutableMemory(s, c) # NullPtr
    THEN Emit(Emit(s, Event("AddReferencedObject", s.ScriptStruct[c], BufPtr(c), NullPtr)),
              Event("AddPropertyReferencesWithStructARO", s.ScriptStruct[c], GetMutableMemory(s, c), NullPtr))
    ELSE s

\* AddStructReferencedObjects that reports without asking for the memory.
AddStructReferencedObjects_AlwaysReport(s, c, InStructureToReinstance) ==
    Emit(Emit(s, Event("AddReferencedObject", s.ScriptStruct[c], BufPtr(c), NullPtr)),
         Event("AddPropertyReferencesWithStructARO", s.ScriptStruct[c], GetMutableMemory(s, c), NullPtr))

\* AddStructReferencedObjects whose first pass does not compare the
\* container's struct with the duplicate's PrimaryStruct.
AddStructReferencedObjects_AnyPrimary(s, c, InStructureToReinstance) ==
    ReportReferences(
        IF InStructureToReinstance # nullptr /\ s.ScriptStruct[c] \in UserDefinedStructs
        THEN IF IsDuplicate(InStructureToReinstance)
             THEN Emit([s EXCEPT !.ScriptStruct[c] = InStructureToReinstance],
                       Event("ScriptStruct", InStructureToReinstance, BufPtr(c), NullPtr))
             ELSE IF PrimaryStruct(s.ScriptStruct[c]) = InStructureToReinstance
                  THEN Reinstantiate(s, c)
                  ELSE s
        ELSE s,
        c)

AddStructReferencedObjects(s, c, InStructureToReinstance) ==
    ReportReferences(
        IF InStructureToReinstance # nullptr /\ s.ScriptStruct[c] \in UserDefinedStructs
        THEN IF IsDuplicate(InStructureToReinstance)
             THEN IF s.ScriptStruct[c] = PrimaryStruct(InStructureToReinstance)
                  THEN Emit([s EXCEPT !.ScriptStruct[c] = InStructureToReinstance],
                            Event("ScriptStruct", InStructureToReinstance, BufPtr(c), NullPtr))
                  ELSE s
             ELSE IF PrimaryStruct(s.ScriptStruct[c]) = InStructureToReinstance
                  THEN Reinstantiate(s, c)
                  ELSE s
        ELSE s,
        c)

(***************************************************************************)
(* NetSerialize: one bit that tells whether a value follows, the type and  *)
(* the value as the struct's net serializer or the connection's RepLayout  *)
(* writes it (external): every field, untagged.  The record carries no     *)
(* size.  bConnection is what the ensureAlways on the connection yields.   *)
(***************************************************************************)
\* STRUCT_NetSerializeNative.
HasNetSerializeNative(T) == T \in {"FVector", "FPlane"}

NetSerializeItem(s, T, MemoryPtr) ==
    IF AccessFault(s, MemoryPtr) # "none" THEN Fail(s, AccessFault(s, MemoryPtr))
    ELSE IF ~IsValueOf(Read(s, MemoryPtr), T) THEN Fail(s, "serialize of no value")
    ELSE IF s.Ar.loading
         THEN Emit(ArSkip(Write(s, MemoryPtr, Obj(T, ArPeek(s.Ar, NumFields(T)))), NumFields(T)),
                   Event("NetSerializeItem", T, MemoryPtr, NullPtr))
         ELSE Emit(ArWrite(s, Read(s, MemoryPtr).val), Event("NetSerializeItem", T, MemoryPtr, NullPtr))

\* "Serialize the actual value."
NetSerializeValue(s, c, bConnection) ==
    IF GetMutableMemory(s, c) # NullPtr /\ (HasNetSerializeNative(s.ScriptStruct[c]) \/ bConnection)
    THEN NetSerializeItem(s, s.ScriptStruct[c], GetMutableMemory(s, c))
    ELSE s

\* NetCheckType that lets a record of no type pass.
NetCheckType_NoError(s, c) == s

\* "Failed to NetSerialize UScriptStruct and recover the corrupted archive."
NetCheckType(s, c) ==
    IF s.ScriptStruct[c] = nullptr
    THEN Emit(Emit([s EXCEPT !.Ar.error = TRUE], Event("bOutSuccess", "false", NullPtr, NullPtr)),
              Event("SetError", nullptr, NullPtr, NullPtr))
    ELSE s

\* Ar << SerializedScriptStruct; "Initialize only if the type changes."
NetLoadType(s, c, SerializedScriptStruct) ==
    NetCheckType(IF s.ScriptStruct[c] # SerializedScriptStruct
                 THEN InitializeAs(s, c, SerializedScriptStruct, NullPtr)
                 ELSE s,
                 c)

NetSerializeLoading(s, c, bConnection) ==
    LET bIsValid == ArPeek(s.Ar, 1)[1] % 2
        s1 == ArSkip(s, 1)
    IN  IF bIsValid = 0
        THEN Reset(s1, c)
        ELSE NetSerializeValue(NetLoadType(ArSkip(s1, 1), c, ResolveTypeRef(ArPeek(s1.Ar, 1)[1])), c, bConnection)

NetSerializeSaving(s, c, bConnection) ==
    IF ~IsValid(s, c)
    THEN ArWrite(s, <<0>>)
    ELSE NetSerializeValue(ArWrite(ArWrite(s, <<1>>), <<TypeRef(s.ScriptStruct[c])>>), c, bConnection)

NetSerialize(s, c, bConnection) ==
    [(IF s.Ar.loading
      THEN NetSerializeLoading(s, c, bConnection)
      ELSE NetSerializeSaving(s, c, bConnection)) EXCEPT !.Ret = "true"]

(***************************************************************************)
(* SerializeFromMismatchedTag: a property saved as an FInstancedStruct is  *)
(* loaded into the container.                                              *)
(***************************************************************************)
\* 0xABABABAB as the stream holds it.
LegacyEditorHeader == <<171, 171, 171, 171>>

\* "If the archive is very old": the header and the version, or the version.
ReadLegacyHeader(s) ==
    LET HeaderOffset == Tell(s)
        Header == ArPeek(s.Ar, 4)
        s1 == ArSkip(s, 4)
    IN  ArSkip(IF Header # LegacyEditorHeader THEN Seek(s1, HeaderOffset) ELSE s1, 1)

\* "Check if the type is not missed" and "Serialize the actual value".
LoadInstancedValue(s, c, SerialSize) ==
    LET s1 == IF s.ScriptStruct[c] = nullptr /\ SerialSize > 0 THEN SkipSerialSize(s, SerialSize) ELSE s
    IN  IF GetMutableMemory(s1, c) # NullPtr
        THEN SerializeItem(s1, s1.ScriptStruct[c], GetMutableMemory(s1, c), NullPtr)
        ELSE s1

\* Ar << SerialSize.
ReadInstancedSize(s, c) == LoadInstancedValue(ArSkip(s, 4), c, BytesToInt32(ArPeek(s.Ar, 4)))

\* Ar << SerializedScriptStruct; "Initialize only if the type changes".
LoadInstanced(s, c) ==
    LET SerializedScriptStruct == ResolveTypeRef(ArPeek(s.Ar, 1)[1])
        s1 == ArSkip(s, 1)
    IN  ReadInstancedSize(IF s1.ScriptStruct[c] # SerializedScriptStruct
                          THEN InitializeAs(s1, c, SerializedScriptStruct, NullPtr)
                          ELSE s1,
                          c)

\* SerializeFromMismatchedTag that reads the record whatever the version.
SerializeFromMismatchedTag_AnyVersion(s, c, TagIsInstancedStruct, IsTextFormat) ==
    IF TagIsInstancedStruct
    THEN IF IsTextFormat THEN [s EXCEPT !.Ret = "false"]
         ELSE [LoadInstanced(IF s.Ar.customVer < 0 THEN ReadLegacyHeader(s) ELSE s, c) EXCEPT !.Ret = "true"]
    ELSE [s EXCEPT !.Ret = "false"]

\* The two ensureMsgf return false; the second argument of the first is the
\* version the archive carries.
SerializeFromMismatchedTag(s, c, TagIsInstancedStruct, IsTextFormat) ==
    IF TagIsInstancedStruct
    THEN IF s.Ar.customVer # 0 THEN [s EXCEPT !.Ret = "false"]
         ELSE IF IsTextFormat THEN [s EXCEPT !.Ret = "false"]
         ELSE [LoadInstanced(IF s.Ar.customVer < 0 THEN ReadLegacyHeader(s) ELSE s, c) EXCEPT !.Ret = "true"]
    ELSE [s EXCEPT !.Ret = "false"]

(***************************************************************************)
(* Text import and export.  A text is a sequence of characters; the engine *)
(* functions FPropertyHelpers::ReadToken, LoadObject, FCoreRedirects and   *)
(* UScriptStruct::ExportText / ImportText are external.  A value is        *)
(* exported as its fields' digits in parentheses; path names are           *)
(* shortened to /Name.                                                     *)
(***************************************************************************)
QuoteChar == "\""

UpperCase == <<"N", "O", "E", "V", "C", "T", "R", "G", "P", "L", "A", "S", "F", "M">>
LowerCase == <<"n", "o", "e", "v", "c", "t", "r", "g", "p", "l", "a", "s", "f", "m">>

Digits == <<"0", "1", "2", "3", "4">>

IsAlnum(ch) ==
    \/ \E i \in DOMAIN UpperCase : ch = UpperCase[i] \/ ch = LowerCase[i]
    \/ \E i \in DOMAIN Digits : ch = Digits[i]

ToLower(ch) ==
    IF \E i \in DOMAIN UpperCase : ch = UpperCase[i]
    THEN LowerCase[CHOOSE i \in DOMAIN UpperCase : ch = UpperCase[i]]
    ELSE ch

\* FCString::Stricmp(a, b) == 0, case-sensitive.
Stricmp_CaseSensitive(a, b) == a = b

\* FCString::Stricmp(a, b) == 0.
Stricmp(a, b) == Len(a) = Len(b) /\ \A i \in DOMAIN a : ToLower(a[i]) = ToLower(b[i])

NoneText == <<"N", "o", "n", "e">>

\* UObject::GetPathName of a struct.
GetPathName(T) ==
    CASE T = "FIntPoint" -> <<"/", "P", "o", "n", "t">>
      [] T = "FVector" -> <<"/", "V", "e", "c", "t", "o", "r">>
      [] T = "FTransform" -> <<"/", "T", "r", "a", "n", "s", "f", "o", "r", "m">>
      [] T = "FPlane" -> <<"/", "P", "l", "a", "n", "e">>

\* FCoreRedirects::GetRedirectedName: the one redirect of the project
\* renames /Vec to /Vector.
GetRedirectedName(OldName) == IF OldName = <<"/", "V", "e", "c">> THEN GetPathName("FVector") ELSE OldName

\* LoadObject<UScriptStruct>: the struct of that path name, if there is one.
LoadObject(PathName) ==
    IF \E T \in Types : GetPathName(T) = PathName
    THEN CHOOSE T \in Types : GetPathName(T) = PathName
    ELSE nullptr

\* The characters of an identifier with dotted names.
IsIdentifierChar(ch) == IsAlnum(ch) \/ ch \in {"_", "-", "+", ".", "/", ":"}

RECURSIVE IdentifierLen(_, _)
IdentifierLen(Buffer, i) ==
    IF i < Len(Buffer) /\ IsIdentifierChar(Buffer[i + 1]) THEN IdentifierLen(Buffer, i + 1) ELSE i

\* FPropertyHelpers::ReadToken: a quoted string, an identifier, or the one
\* character the buffer starts with (the terminator at the end of the text),
\* which is not consumed.  A quoted string that is not closed cannot be read.
ReadToken(Buffer) ==
    IF Len(Buffer) = 0 THEN [ok |-> TRUE, name |-> <<"\\0">>, rest |-> Buffer]
    ELSE IF Buffer[1] = QuoteChar
    THEN IF \E j \in 2..Len(Buffer) : Buffer[j] = QuoteChar
         THEN LET j == CHOOSE j \in 2..Len(Buffer) :
                           Buffer[j] = QuoteChar /\ \A k \in 2..(j - 1) : Buffer[k] # QuoteChar
              IN  [ok |-> TRUE, name |-> SubSeq(Buffer, 2, j - 1), rest |-> SubSeq(Buffer, j + 1, Len(Buffer))]
         ELSE [ok |-> FALSE, name |-> <<>>, rest |-> Buffer]
    ELSE IF IsAlnum(Buffer[1]) \/ Buffer[1] = "/"
    THEN [ok |-> TRUE, name |-> SubSeq(Buffer, 1, IdentifierLen(Buffer, 0)),
          rest |-> SubSeq(Buffer, IdentifierLen(Buffer, 0) + 1, Len(Buffer))]
    ELSE [ok |-> TRUE, name |-> <<Buffer[1]>>, rest |-> Buffer]

\* UScriptStruct::ExportText.
ExportText(T, val) == <<"(">> \o [i \in 1..Len(val) |-> Digits[val[i] + 1]] \o <<")">>

\* UScriptStruct::ImportText: the fields and the rest of the buffer, or no
\* result if the buffer does not start with a value of T.
ImportText(T, Buffer) ==
    IF /\ Len(Buffer) >= NumFields(T) + 2
       /\ Buffer[1] = "("
       /\ Buffer[NumFields(T) + 2] = ")"
       /\ \A i \in 1..NumFields(T) : \E v \in FieldValues : Buffer[i + 1] = Digits[v + 1]
    THEN [ok |-> TRUE,
          val |-> [i \in 1..NumFields(T) |-> CHOOSE v \in FieldValues : Buffer[i + 1] = Digits[v + 1]],
          rest |-> SubSeq(Buffer, NumFields(T) + 3, Len(Buffer))]
    ELSE [ok |-> FALSE, val |-> <<>>, rest |-> Buffer]

ExportTextItem(s, c) ==
    [s EXCEPT !.ValueStr = IF GetMemory(s, c) # NullPtr
                           THEN @ \o GetPathName(s.ScriptStruct[c])
                                  \o ExportText(s.ScriptStruct[c], Read(s, GetMemory(s, c)).val)
                           ELSE @ \o NoneText,
              !.Ret = "true"]

\* StructTypePtr->ImportText(Buffer, GetMutableMemory(), ...) on the
\* initialized container.
ImportValue(s, c, StructTypePtr) ==
    IF ImportText(StructTypePtr, s.Buffer).ok
    THEN [Write(s, GetMutableMemory(s, c), Obj(StructTypePtr, ImportText(StructTypePtr, s.Buffer).val))
             EXCEPT !.Buffer = ImportText(StructTypePtr, s.Buffer).rest, !.Ret = "true"]
    ELSE [s EXCEPT !.Ret = "false"]

\* ImportTextItem once the struct's path name is read.
ImportStruct(s, c, StructPathName) ==
    IF Len(StructPathName) = 0 \/ Stricmp(StructPathName, NoneText)
    THEN [InitializeAs(s, c, nullptr, NullPtr) EXCEPT !.Ret = "true"]
    ELSE IF LoadObject(GetRedirectedName(StructPathName)) # nullptr
    THEN ImportValue(InitializeAs(s, c, LoadObject(GetRedirectedName(StructPathName)), NullPtr), c,
                     LoadObject(GetRedirectedName(StructPathName)))
    ELSE [s EXCEPT !.Ret = "false"]

ImportTextItem(s, c) ==
    IF s.Buffer = <<"(", ")">>
    THEN ImportStruct([s EXCEPT !.Buffer = <<>>], c, <<>>)
    ELSE IF ReadToken(s.Buffer).ok
    THEN ImportStruct([s EXCEPT !.Buffer = ReadToken(s.Buffer).rest], c, ReadToken(s.Buffer).name)
    ELSE [s EXCEPT !.Ret = "false"]

(***************************************************************************)
(* lastOp names the operation of the last step, so that a step of the      *)
(* behaviour can be told to be a given call.                               *)
(***************************************************************************)
Holds(s, c) == IF c \in Slots /\ s.ScriptStruct[c] # nullptr THEN Read(s, GetMemory(s, c)) ELSE RawCell

\* The operation, the containers it ran on (0: none), its descriptor and
\* value arguments, what it returned and the calls it made.
OpRec(op, dst, src, T, arg) ==
    [op |-> op, dst |-> dst, src |-> src, type |-> T, arg |-> arg, ret |-> "void", trace |-> <<>>]

NoOp == OpRec("none", 0, 0, nullptr, RawCell)

\* An operation runs only on a state no fault has been raised in.
Commit(r, op) ==
    /\ Fault = "none"
    /\ ~r.Stuck
    /\ ScriptStruct' = r.ScriptStruct
    /\ StructMemory' = r.StructMemory
    /\ StructBuffer' = r.StructBuffer
    /\ Heap' = r.Heap
    /\ AllocatedBy' = r.AllocatedBy
    /\ Allocs' = r.Allocs
    /\ Frees' = r.Frees
    /\ Fault' = r.Fault
    /\ Ar' = r.Ar
    /\ lastOp' = [op EXCEPT !.ret = r.Ret, !.trace = r.Trace]
    /\ Text' = [Buffer |-> r.Buffer, ValueStr |-> r.ValueStr]
    /\ UNCHANGED <<probe, StructureToReinstance, Threads, Storage>>

(***************************************************************************)
(* The storage of one container byte by byte: the union of StructMemory    *)
(* and StructBuffer, whose first bytes are the pointer's.  A block's       *)
(* address is its number, null is 0; a value of T is GetStructureSize(T)   *)
(* bytes.  Destroyed is the buffer as DestroyStruct last left it.          *)
(***************************************************************************)
PointerBytes(p) == <<p, 0, 0, 0, 0, 0, 0, 0>>

EmptyStorage ==
    [ScriptStruct |-> nullptr, StructBuffer |-> [i \in 1..BUFFER_SIZE |-> 0],
     Destroyed |-> [i \in 1..BUFFER_SIZE |-> 0], op |-> "none"]

\* StructMemory = p.
AssignStructMemory(u, p) ==
    [u EXCEPT !.StructBuffer = [i \in 1..BUFFER_SIZE |-> IF i <= Len(PointerBytes(p)) THEN PointerBytes(p)[i] ELSE @[i]]]

\* The pointer the first bytes of the union read as.
ReadStructMemory(u) == u.StructBuffer[1]

\* The bytes of a value of T whose fields are v, in the buffer.
StoreValue(u, T, v) ==
    [u EXCEPT !.StructBuffer = [i \in 1..BUFFER_SIZE |-> IF i <= GetStructureSize(T) THEN v[1] + 1 ELSE @[i]]]

\* GetMutableMemory on the bytes: 0 for null, -1 for the buffer.
StorageMemory(u) ==
    IF u.ScriptStruct # nullptr /\ ~RequiresMemoryAllocation(UScriptStruct(u.ScriptStruct))
    THEN -1
    ELSE ReadStructMemory(u)

\* DestroyStruct (external): the destructor leaves the bytes of an inline
\* value as they are or fills them with the byte poison.
StorageDestroyStruct(u, poison) ==
    LET v == IF StorageMemory(u) = -1 /\ poison # 0
             THEN [u EXCEPT !.StructBuffer =
                      [i \in 1..BUFFER_SIZE |-> IF i <= GetStructureSize(u.ScriptStruct) THEN poison ELSE @[i]]]
             ELSE u
    IN  [v EXCEPT !.Destroyed = v.StructBuffer]

\* ResetStructData that clears the whole buffer.
StorageResetStructData_ClearBuffer(u, InScriptStruct, InStructMemory) ==
    [u EXCEPT !.StructBuffer = [i \in 1..BUFFER_SIZE |-> IF i = 1 THEN InStructMemory ELSE 0],
              !.ScriptStruct = InScriptStruct]

\* ResetStructData on the bytes.
StorageResetStructData(u, InScriptStruct, InStructMemory) ==
    [AssignStructMemory(u, InStructMemory) EXCEPT !.ScriptStruct = InScriptStruct]

\* Reset on the bytes; FMemory::Free does not touch the container.
StorageReset(u, poison) ==
    IF StorageMemory(u) # 0
    THEN StorageResetStructData(StorageDestroyStruct(u, poison), nullptr, 0)
    ELSE StorageResetStructData(u, nullptr, 0)

\* InitializeAs on the bytes, with the value v in the caller's struct.
StorageInitializeAs(u, InScriptStruct, v, NewBlock, poison) ==
    IF u.ScriptStruct # nullptr /\ InScriptStruct = u.ScriptStruct
    THEN IF StorageMemory(u) = -1 THEN StoreValue(u, InScriptStruct, v) ELSE u
    ELSE LET u1 == [StorageReset(u, poison) EXCEPT !.ScriptStruct = InScriptStruct]
         IN  IF RequiresMemoryAllocation(UScriptStruct(InScriptStruct))
             THEN AssignStructMemory(u1, NewBlock)
             ELSE StoreValue(u1, InScriptStruct, v)

\* A thread that runs no operation: its position, the arguments and the
\* local MemoryPtr of the operation it runs, where it goes on after Reset,
\* and what the operations it has run so far yield when each is run alone on
\* the thread's container: descriptor, value, and allocations less frees.
IdleThread ==
    [pc |-> "idle", InScriptStruct |-> nullptr, InStructMemory |-> RawCell, MemoryPtr |-> NullPtr, then |-> "idle",
     type |-> nullptr, cell |-> RawCell, live |-> 0]

Init ==
    /\ ScriptStruct = [c \in Slots |-> nullptr]
    /\ StructMemory = [c \in Slots |-> NullPtr]
    /\ StructBuffer = [c \in Slots |-> RawCell]
    /\ Heap = [b \in Blocks |-> FreeCell]
    /\ AllocatedBy = [b \in Blocks |-> 0]
    /\ Allocs = 0
    /\ Frees = 0
    /\ Fault = "none"
    /\ Ar = EmptyArchive
    /\ lastOp = NoOp
    /\ probe = [BufferSize |-> BUFFER_SIZE, Alignment |-> ALIGNOF_FVariadicStruct,
                StructureSize |-> 1, MinAlignment |-> 1, result |-> FALSE]
    /\ StructureToReinstance = nullptr
    /\ Threads = [c \in Containers |-> IdleThread]
    /\ Storage = EmptyStorage
    /\ Text = [Buffer |-> <<>>, ValueStr |-> <<>>]

\* The struct memory a caller may pass with a descriptor T: none, a struct of
\* its own, or the memory of a container that holds a T.
ExtSources(T) == IF T = nullptr THEN {RawCell} ELSE {RawCell} \cup {Obj(T, v) : v \in ValuesOf(T)}

DoMake(c, T, v, elide) ==
    /\ Fresh(Now, c)
    /\ \E nb \in Blocks :
          Commit(Make(Cur(RawCell, nb), c, T, v, elide), OpRec("Make", c, 0, T, Obj(T, v)))

DoMakeScriptStruct(c, T, ext, elide) ==
    /\ Fresh(Now, c)
    /\ \E nb \in Blocks :
          Commit(MakeScriptStruct(Cur(ext, nb), c, T, IF ext = RawCell THEN NullPtr ELSE ExtPtr, elide),
                 OpRec("MakeScriptStruct", c, 0, T, ext))

DoMakeFrom(c, d, elide) ==
    /\ Fresh(Now, c)
    /\ c # d
    /\ \E nb \in Blocks :
          Commit(MakeScriptStruct(Cur(RawCell, nb), c, GetScriptStruct(Now, d), GetMutableMemory(Now, d), elide),
                 OpRec("MakeFrom", c, d, GetScriptStruct(Now, d), RawCell))

DoInitializeAs(c, T, ext) ==
    \E nb \in Blocks :
        Commit(InitializeAs(Cur(ext, nb), c, T, IF ext = RawCell THEN NullPtr ELSE ExtPtr),
               OpRec("InitializeAs", c, 0, T, ext))

DoInitializeAsT(c, T, v) ==
    \E nb \in Blocks :
        Commit(InitializeAsT(Cur(RawCell, nb), c, T, v), OpRec("InitializeAsT", c, 0, T, Obj(T, v)))

DoReset(c) == Commit(Reset(Now, c), OpRec("Reset", c, 0, nullptr, RawCell))

DoDestructor(c) == Commit(Destructor(Now, c), OpRec("Destructor", c, 0, nullptr, RawCell))

DoCopyConstruct(c, d) ==
    /\ Fresh(Now, c)
    /\ c # d
    /\ \E nb \in Blocks :
          Commit(CopyConstruct(Cur(RawCell, nb), c, d), OpRec("CopyConstruct", c, d, nullptr, RawCell))

DoMoveConstruct(c, d) ==
    /\ Fresh(Now, c)
    /\ c # d
    /\ \E nb \in Blocks :
          Commit(MoveConstruct(Cur(RawCell, nb), c, d), OpRec("MoveConstruct", c, d, nullptr, RawCell))

DoCopyAssign(c, d) ==
    \E nb \in Blocks :
        Commit(CopyAssign(Cur(RawCell, nb), c, d), OpRec("CopyAssign", c, d, nullptr, RawCell))

DoMoveAssign(c, d) ==
    \E nb \in Blocks :
        Commit(MoveAssign(Cur(RawCell, nb), c, d), OpRec("MoveAssign", c, d, nullptr, RawCell))

Saved(ar) == {i \in 1..Len(ar.log) : ar.log[i].cell.type # "FRemovedStruct"}

Removed(ar) == {i \in 1..Len(ar.log) : ar.log[i].cell.type = "FRemovedStruct"}

DoSerializeSave(c, D) ==
    /\ ~Ar.loading
    /\ Cardinality(Saved(Ar)) < MaxSaved
    /\ \E nb \in Blocks :
          LET r == Serialize(Cur(D, nb), c, D)
          IN  Commit([r EXCEPT !.Ar.log = Append(@, [at |-> Ar.pos, cell |-> Holds(r, c), defaults |-> D])],
                     OpRec("SerializeSave", c, 0, r.ScriptStruct[c], D))

\* A record written while FRemovedStruct still existed: its reference, the
\* payload length L and L payload bytes.
RemovedPayload(L) == [i \in 1..L |-> 7]

DoWriteRemoved(L) ==
    /\ ~Ar.loading
    /\ Cardinality(Removed(Ar)) < MaxRemoved
    /\ LET r == ArWrite(ArWrite(ArWrite(Now, <<TypeRef("FRemovedStruct")>>), Int32ToBytes(L)), RemovedPayload(L))
       IN  Commit([r EXCEPT !.Ar.log = Append(@, [at |-> Ar.pos, cell |-> Obj("FRemovedStruct", RemovedPayload(L)),
                                                    defaults |-> NoDefaults])],
                  OpRec("WriteRemoved", 0, 0, "FRemovedStruct", RawCell))

\* The written bytes are opened for loading.
DoOpenReader ==
    /\ ~Ar.loading
    /\ Len(Ar.log) > 0
    /\ Commit([Now EXCEPT !.Ar.loading = TRUE, !.Ar.pos = 0], OpRec("OpenReader", 0, 0, nullptr, RawCell))

DoSerializeLoad(c, D) ==
    /\ Ar.loading
    /\ Ar.pos < Len(Ar.data)
    /\ \E nb \in Blocks :
          Commit(Serialize(Cur(D, nb), c, D),
                 OpRec("SerializeLoad", c, 0, RefName(Ar.data[Ar.pos + 1]), D))

DoNewArchive ==
    /\ Ar # EmptyArchive
    /\ Commit([Now EXCEPT !.Ar = EmptyArchive], OpRec("NewArchive", 0, 0, nullptr, RawCell))

\* The defaults a caller passes: none, an empty view, or a view of its own
\* struct, of an inline-placed or of a heap-placed type.
DefaultsChoices ==
    {NoDefaults, EmptyView} \cup UNION {{Obj(T, v) : v \in ValuesOf(T)} : T \in {"FVector", "FTransform"}}

\* The containers the codec runs on.
Streamed == {1}

Next ==
    \/ \E c \in Containers, T \in Types, elide \in BOOLEAN : \E v \in ValuesOf(T) : DoMake(c, T, v, elide)
    \/ \E c \in Containers, T \in Types \cup {nullptr}, elide \in BOOLEAN :
          \E ext \in ExtSources(T) : DoMakeScriptStruct(c, T, ext, elide)
    \/ \E c, d \in Containers, elide \in BOOLEAN : DoMakeFrom(c, d, elide)
    \/ \E c \in Containers, T \in Types \cup {nullptr} : \E ext \in ExtSources(T) : DoInitializeAs(c, T, ext)
    \/ \E c \in Containers, T \in Types : \E v \in ValuesOf(T) : DoInitializeAsT(c, T, v)
    \/ \E c \in Containers : DoReset(c)
    \/ \E c \in Containers : DoDestructor(c)
    \/ \E c, d \in Containers : DoCopyConstruct(c, d)
    \/ \E c, d \in Containers : DoMoveConstruct(c, d)
    \/ \E c, d \in Containers : DoCopyAssign(c, d)
    \/ \E c, d \in Containers : DoMoveAssign(c, d)

Spec == Init /\ [][Next]_vars

(***************************************************************************)
(* The serialization codec with the factories and Reset around it.         *)
(***************************************************************************)
NextSerialize ==
    \/ \E c \in Streamed, T \in Types : \E v \in ValuesOf(T) : DoMake(c, T, v, TRUE)
    \/ \E c \in Streamed : DoReset(c)
    \/ \E c \in Streamed, D \in DefaultsChoices : DoSerializeSave(c, D)
    \/ \E L \in 0..MaxSkip : DoWriteRemoved(L)
    \/ DoOpenReader
    \/ \E c \in Streamed, D \in DefaultsChoices : DoSerializeLoad(c, D)
    \/ DoNewArchive

SpecSerialize == Init /\ [][NextSerialize]_vars

(***************************************************************************)
(* The placement function on arbitrary descriptors: a size that is a       *)
(* positive multiple of a power-of-two alignment.                          *)
(***************************************************************************)
RECURSIVE IsPowerOfTwo(_)
IsPowerOfTwo(n) == n = 1 \/ (n > 1 /\ n % 2 = 0 /\ IsPowerOfTwo(n \div 2))

Descriptors ==
    {[StructureSize |-> size, MinAlignment |-> align] :
        size \in 1..MaxProbeSize, align \in {a \in 1..MaxProbeSize : IsPowerOfTwo(a)}}

DoProbe(d) ==
    /\ d.StructureSize % d.MinAlignment = 0
    /\ probe' = [BufferSize |-> BUFFER_SIZE, Alignment |-> ALIGNOF_FVariadicStruct,
                 StructureSize |-> d.StructureSize, MinAlignment |-> d.MinAlignment,
                 result |-> RequiresMemoryAllocation(d)]
    /\ UNCHANGED <<ScriptStruct, StructMemory, StructBuffer, Heap, AllocatedBy, Allocs, Frees, Fault, Ar, lastOp,
                   StructureToReinstance, Threads, Storage, Text>>

NextPlacement == \E d \in Descriptors : DoProbe(d)

SpecPlacement == Init /\ [][NextPlacement]_vars

(***************************************************************************)
(* The placement function in builds with another buffer size and another   *)
(* container alignment: the build is chosen once, then descriptors are     *)
(* probed in it.                                                           *)
(***************************************************************************)
LayoutSizes == 1..MaxLayoutSize

LayoutAlignments == {a \in 1..MaxLayoutSize : IsPowerOfTwo(a)}

DoConfigure(BufferSize, Alignment) ==
    /\ probe.BufferSize = BUFFER_SIZE
    /\ probe.Alignment = ALIGNOF_FVariadicStruct
    /\ probe.StructureSize = 1
    /\ probe' = [probe EXCEPT !.BufferSize = BufferSize, !.Alignment = Alignment]
    /\ UNCHANGED <<ScriptStruct, StructMemory, StructBuffer, Heap, AllocatedBy, Allocs, Frees, Fault, Ar, lastOp,
                   StructureToReinstance, Threads, Storage, Text>>

DoProbeWith(d) ==
    /\ d.StructureSize % d.MinAlignment = 0
    /\ probe' = [probe EXCEPT !.StructureSize = d.StructureSize, !.MinAlignment = d.MinAlignment,
                              !.result = RequiresMemoryAllocationWith(probe.BufferSize, probe.Alignment, d)]
    /\ UNCHANGED <<ScriptStruct, StructMemory, StructBuffer, Heap, AllocatedBy, Allocs, Frees, Fault, Ar, lastOp,
                   StructureToReinstance, Threads, Storage, Text>>

NextLayout ==
    \/ \E BufferSize \in LayoutSizes, Alignment \in LayoutAlignments : DoConfigure(BufferSize, Alignment)
    \/ \E size \in LayoutSizes, align \in LayoutAlignments :
          DoProbeWith([StructureSize |-> size, MinAlignment |-> align])

SpecLayout == Init /\ [][NextLayout]_vars

(***************************************************************************)
(* Several containers under every operation that builds, copies, moves,    *)
(* destroys, saves or loads a value, with one inline-placed and one        *)
(* heap-placed type.                                                       *)
(***************************************************************************)
SystemTypes == {"FVector", "FTransform"}

SystemDefaults == {NoDefaults} \cup {Obj(T, [i \in 1..1 |-> MaxVal]) : T \in SystemTypes}

NextSystem ==
    \/ \E c \in Containers, T \in SystemTypes \cup {nullptr} : \E ext \in ExtSources(T) : DoInitializeAs(c, T, ext)
    \/ \E c \in Containers : DoReset(c)
    \/ \E c \in Containers : DoDestructor(c)
    \/ \E c, d \in Containers : DoCopyConstruct(c, d)
    \/ \E c, d \in Containers : DoMoveConstruct(c, d)
    \/ \E c, d \in Containers : DoCopyAssign(c, d)
    \/ \E c, d \in Containers : DoMoveAssign(c, d)
    \/ \E c \in Containers, D \in SystemDefaults : DoSerializeSave(c, D)
    \/ DoOpenReader
    \/ \E c \in Containers, D \in SystemDefaults : DoSerializeLoad(c, D)
    \/ DoNewArchive

SpecSystem == Init /\ [][NextSystem]_vars

(***************************************************************************)
(* The descriptors a caller or a stream can hand to a container, the       *)
(* struct wrappers included.                                               *)
(***************************************************************************)
\* A record that names a struct wrapper: its reference, the payload length
\* and the payload.
DoWriteUnsupported(U) ==
    /\ ~Ar.loading
    /\ Len(Ar.log) < MaxSaved + MaxRemoved
    /\ LET r == ArWrite(ArWrite(ArWrite(Now, <<TypeRef(U)>>), Int32ToBytes(1)), RemovedPayload(1))
       IN  Commit([r EXCEPT !.Ar.log = Append(@, [at |-> Ar.pos, cell |-> Obj(U, RemovedPayload(1)),
                                                    defaults |-> NoDefaults])],
                  OpRec("WriteUnsupported", 0, 0, U, RawCell))

ValidateDefaults ==
    {NoDefaults, Obj("FVector", DefaultValue("FVector")), Obj("FInstancedStruct", DefaultValue("FInstancedStruct"))}

NextValidate ==
    \/ \E c \in Streamed, T \in SystemTypes \cup UnsupportedTypes \cup {nullptr} : DoInitializeAs(c, T, RawCell)
    \/ \E c \in Streamed : DoReset(c)
    \/ \E c \in Streamed, D \in ValidateDefaults : DoSerializeSave(c, D)
    \/ \E U \in UnsupportedTypes : DoWriteUnsupported(U)
    \/ DoOpenReader
    \/ \E c \in Streamed, D \in ValidateDefaults : DoSerializeLoad(c, D)
    \/ DoNewArchive

SpecValidate == Init /\ [][NextValidate]_vars

(***************************************************************************)
(* Reinstancing of a user defined struct in the editor.  The editor makes  *)
(* the duplicate the structure to reinstance and walks the references      *)
(* (first pass), then makes the primary struct the structure to reinstance *)
(* and walks them again (second pass), then ends the reinstancing.         *)
(***************************************************************************)
ReinstanceTypes == {"FVector", "FUserStruct", "FUserTable"}

DoSetStructureToReinstance(U) ==
    /\ Fault = "none"
    /\ \/ StructureToReinstance = nullptr /\ IsDuplicate(U)
       \/ IsDuplicate(StructureToReinstance) /\ U = PrimaryStruct(StructureToReinstance)
       \/ StructureToReinstance # nullptr /\ ~IsDuplicate(StructureToReinstance) /\ U = nullptr
    /\ StructureToReinstance' = U
    /\ lastOp' = OpRec("SetStructureToReinstance", 0, 0, U, RawCell)
    /\ UNCHANGED <<ScriptStruct, StructMemory, StructBuffer, Heap, AllocatedBy, Allocs, Frees, Fault, Ar, probe,
                   Threads, Storage, Text>>

DoAddStructReferencedObjects(c) ==
    \E nb \in Blocks :
        Commit(AddStructReferencedObjects(Cur(RawCell, nb), c, StructureToReinstance),
               OpRec("AddStructReferencedObjects", c, 0, StructureToReinstance, RawCell))

NextReinstance ==
    \/ \E c \in Containers, T \in ReinstanceTypes : \E v \in ValuesOf(T) : DoMake(c, T, v, TRUE)
    \/ \E c \in Containers : DoReset(c)
    \/ \E U \in UserDefinedStructs \cup {nullptr} : DoSetStructureToReinstance(U)
    \/ \E c \in Containers : DoAddStructReferencedObjects(c)

SpecReinstance == Init /\ [][NextReinstance]_vars

(***************************************************************************)
(* Values of user defined structs that are moved, saved and loaded while   *)
(* their struct is replaced.                                               *)
(***************************************************************************)
NextReplace ==
    \/ \E c \in Containers, T \in {"FUserStruct", "FUserTable"} : DoMake(c, T, DefaultValue(T), TRUE)
    \/ \E c \in Containers : DoReset(c)
    \/ \E c, d \in Containers : DoMoveConstruct(c, d)
    \/ \E c, d \in Containers : DoMoveAssign(c, d)
    \/ \E U \in UserDefinedStructs \cup {nullptr} : DoSetStructureToReinstance(U)
    \/ \E c \in Containers : DoAddStructReferencedObjects(c)
    \/ \E c \in Streamed : DoSerializeSave(c, NoDefaults)
    \/ DoOpenReader
    \/ \E c \in Streamed : DoSerializeLoad(c, NoDefaults)
    \/ DoNewArchive

SpecReplace == Init /\ [][NextReplace]_vars

(***************************************************************************)
(* Replication: values and empty containers are written to a bunch, as is  *)
(* a value of a struct the receiver does not know, and the bunch is read.  *)
(***************************************************************************)
DoNetSerializeSave(c, bConnection) ==
    /\ ~Ar.loading
    /\ Cardinality(Saved(Ar)) < MaxSaved
    /\ LET r == NetSerialize(Now, c, bConnection)
       IN  Commit([r EXCEPT !.Ar.log = Append(@, [at |-> Ar.pos, cell |-> Holds(r, c), defaults |-> NoDefaults])],
                  OpRec("NetSerializeSave", c, 0, ScriptStruct[c], RawCell))

\* A value of FRemovedStruct as its sender wrote it: the bit, the type and
\* L bytes of payload.
DoNetWriteRemoved(L) ==
    /\ ~Ar.loading
    /\ Cardinality(Removed(Ar)) < MaxRemoved
    /\ LET r == ArWrite(ArWrite(ArWrite(Now, <<1>>), <<TypeRef("FRemovedStruct")>>), RemovedPayload(L))
       IN  Commit([r EXCEPT !.Ar.log = Append(@, [at |-> Ar.pos, cell |-> Obj("FRemovedStruct", RemovedPayload(L)),
                                                    defaults |-> NoDefaults])],
                  OpRec("NetWriteRemoved", 0, 0, "FRemovedStruct", RawCell))

DoNetSerializeLoad(c, bConnection) ==
    /\ Ar.loading
    /\ Ar.pos < Len(Ar.data)
    /\ \E nb \in Blocks :
          Commit(NetSerialize(Cur(RawCell, nb), c, bConnection),
                 OpRec("NetSerializeLoad", c, 0, RefName(ArPeek([Ar EXCEPT !.pos = @ + 1], 1)[1]), RawCell))

NextNet ==
    \/ \E c \in Streamed, T \in SystemTypes : \E v \in ValuesOf(T) : DoMake(c, T, v, TRUE)
    \/ \E c \in Streamed : DoReset(c)
    \/ \E c \in Streamed, bConnection \in BOOLEAN : DoNetSerializeSave(c, bConnection)
    \/ \E L \in 0..MaxSkip : DoNetWriteRemoved(L)
    \/ DoOpenReader
    \/ \E c \in Streamed, bConnection \in BOOLEAN : DoNetSerializeLoad(c, bConnection)
    \/ DoNewArchive

SpecNet == Init /\ [][NextNet]_vars

(***************************************************************************)
(* Threads: thread c runs InitializeAs and Reset on the container c, one   *)
(* call or assignment of the code at a time, while the other threads run   *)
(* theirs.  FMemory is thread safe.                                        *)
(***************************************************************************)
\* The state a thread's operation would run in were it alone: no block but
\* its container's is allocated, and a block is there for it to allocate.
Alone(c, InStructMemory) ==
    [Cur(InStructMemory, CHOOSE b \in Blocks : StructMemory[c] # HeapPtr(b)) EXCEPT
        !.Heap = [b \in Blocks |-> IF StructMemory[c] = HeapPtr(b) THEN Heap[b] ELSE FreeCell],
        !.Allocs = 0,
        !.Frees = 0]

\* The thread starts an operation whose result, run alone, is r.
Started(c, r, pc, T, InStructMemory, then) ==
    [Threads[c] EXCEPT !.pc = pc, !.InScriptStruct = T, !.InStructMemory = InStructMemory, !.then = then,
                       !.type = r.ScriptStruct[c], !.cell = Holds(r, c),
                       !.live = @ + r.Allocs - r.Frees]

\* One step of the thread c: the state after it and the thread after it.
Step(r, c, th) ==
    /\ Fault = "none"
    /\ ~r.Stuck
    /\ ScriptStruct' = r.ScriptStruct
    /\ StructMemory' = r.StructMemory
    /\ StructBuffer' = r.StructBuffer
    /\ Heap' = r.Heap
    /\ AllocatedBy' = r.AllocatedBy
    /\ Allocs' = r.Allocs
    /\ Frees' = r.Frees
    /\ Fault' = r.Fault
    /\ Threads' = [Threads EXCEPT ![c] = th]
    /\ lastOp' = OpRec("Step", c, 0, nullptr, RawCell)
    /\ UNCHANGED <<Ar, probe, StructureToReinstance, Storage, Text>>

\* uint8* MemoryPtr = StructBuffer.
InlineBuffer_Static(c) == BufPtr(1)

InlineBuffer(c) == BufPtr(c)

\* The struct memory a thread passes with T: none, or a struct of its own.
ThreadSources(T) == IF T = nullptr THEN {RawCell} ELSE {RawCell, Obj(T, [i \in 1..NumFields(T) |-> MaxVal])}

DoCallInitializeAs(c, T, InStructMemory) ==
    /\ Threads[c].pc = "idle"
    /\ Step(Now, c, Started(c, InitializeAs(Alone(c, InStructMemory), c, T,
                                       IF InStructMemory = RawCell THEN NullPtr ELSE ExtPtr),
                            "InitializeAs", T, InStructMemory, "Assign"))

DoCallReset(c) ==
    /\ Threads[c].pc = "idle"
    /\ Step(Now, c, Started(c, Reset(Alone(c, RawCell), c), "Reset", nullptr, RawCell, "idle"))

\* checkf(ValidateScriptStruct); if (IsValid() && InScriptStruct == ScriptStruct).
DoStepInitializeAs(c) ==
    /\ Threads[c].pc = "InitializeAs"
    /\ IF ~ValidateScriptStruct(Threads[c].InScriptStruct)
       THEN Step(Fail(Now, "unsupported type"), c, [Threads[c] EXCEPT !.pc = "idle"])
       ELSE Step(Now, c, [Threads[c] EXCEPT !.pc = IF IsValid(Now, c) /\ Threads[c].InScriptStruct = ScriptStruct[c]
                                                     THEN "SameType"
                                                     ELSE "Reset"])

\* CopyScriptStruct(GetMutableMemory(), InStructMemory) or ClearScriptStruct(GetMutableMemory()).
DoStepSameType(c) ==
    /\ Threads[c].pc = "SameType"
    /\ Step(IF Threads[c].InStructMemory # RawCell
            THEN CopyScriptStruct(Cur(Threads[c].InStructMemory, 1), ScriptStruct[c], GetMutableMemory(Now, c), ExtPtr)
            ELSE ClearScriptStruct(Now, ScriptStruct[c], GetMutableMemory(Now, c)),
            c, [Threads[c] EXCEPT !.pc = "idle"])

\* if (uint8* const MemoryPtr = GetMutableMemory()).
DoStepReset(c) ==
    /\ Threads[c].pc = "Reset"
    /\ Step(Now, c, [Threads[c] EXCEPT !.MemoryPtr = GetMutableMemory(Now, c),
                                       !.pc = IF GetMutableMemory(Now, c) # NullPtr
                                              THEN "DestroyStruct"
                                              ELSE "ResetStructData"])

\* ScriptStruct->DestroyStruct(MemoryPtr); if (RequiresMemoryAllocation(ScriptStruct)).
DoStepDestroyStruct(c) ==
    /\ Threads[c].pc = "DestroyStruct"
    /\ Step(DestroyStruct(Now, ScriptStruct[c], Threads[c].MemoryPtr), c,
            [Threads[c] EXCEPT !.pc = IF ScriptStruct[c] # nullptr
                                         /\ RequiresMemoryAllocation(UScriptStruct(ScriptStruct[c]))
                                      THEN "Free"
                                      ELSE "ResetStructData"])

\* FMemory::Free(MemoryPtr).
DoStepFree(c) ==
    /\ Threads[c].pc = "Free"
    /\ Step(Free(Now, Threads[c].MemoryPtr), c, [Threads[c] EXCEPT !.pc = "ResetStructData"])

\* ResetStructData(); Reset returns.
DoStepResetStructData(c) ==
    /\ Threads[c].pc = "ResetStructData"
    /\ Step(ResetStructData(Now, c, nullptr, NullPtr), c,
            [Threads[c] EXCEPT !.pc = Threads[c].then, !.MemoryPtr = NullPtr])

\* if ((ScriptStruct = InScriptStruct) != nullptr); uint8* MemoryPtr =
\* StructBuffer; if (RequiresMemoryAllocation(InScriptStruct)).
DoStepAssign(c) ==
    /\ Threads[c].pc = "Assign"
    /\ LET T == Threads[c].InScriptStruct
       IN  Step(Emit([Now EXCEPT !.ScriptStruct[c] = T], Event("ScriptStruct", T, BufPtr(c), NullPtr)), c,
                IF T = nullptr
                THEN [Threads[c] EXCEPT !.pc = "idle"]
                ELSE [Threads[c] EXCEPT !.MemoryPtr = InlineBuffer(c),
                                        !.pc = IF RequiresMemoryAllocation(UScriptStruct(T))
                                               THEN "Malloc"
                                               ELSE "InitializeStruct"])

\* MemoryPtr = StructMemory = FMemory::Malloc(...).
DoStepMalloc(c) ==
    /\ Threads[c].pc = "Malloc"
    /\ \E nb \in Blocks :
          LET T == Threads[c].InScriptStruct
              r == Malloc(Cur(RawCell, nb), GetStructureSize(T), GetMinAlignment(T))
          IN  Step([r EXCEPT !.StructMemory[c] = HeapPtr(nb), !.StructBuffer[c] = RawCell, !.AllocatedBy[nb] = c],
                   c, [Threads[c] EXCEPT !.MemoryPtr = HeapPtr(nb), !.pc = "InitializeStruct"])

\* ScriptStruct->InitializeStruct(MemoryPtr); if (InStructMemory).
DoStepInitializeStruct(c) ==
    /\ Threads[c].pc = "InitializeStruct"
    /\ Step(InitializeStruct(Now, ScriptStruct[c], Threads[c].MemoryPtr), c,
            [Threads[c] EXCEPT !.pc = IF Threads[c].InStructMemory # RawCell THEN "CopyScriptStruct" ELSE "idle"])

\* ScriptStruct->CopyScriptStruct(MemoryPtr, InStructMemory).
DoStepCopyScriptStruct(c) ==
    /\ Threads[c].pc = "CopyScriptStruct"
    /\ Step(CopyScriptStruct(Cur(Threads[c].InStructMemory, 1), ScriptStruct[c], Threads[c].MemoryPtr, ExtPtr), c,
            [Threads[c] EXCEPT !.pc = "idle", !.MemoryPtr = NullPtr])

NextThreads ==
    \/ \E c \in Containers, T \in SystemTypes \cup {nullptr} : \E ext \in ThreadSources(T) : DoCallInitializeAs(c, T, ext)
    \/ \E c \in Containers : DoCallReset(c)
    \/ \E c \in Containers : DoStepInitializeAs(c)
    \/ \E c \in Containers : DoStepSameType(c)
    \/ \E c \in Containers : DoStepReset(c)
    \/ \E c \in Containers : DoStepDestroyStruct(c)
    \/ \E c \in Containers : DoStepFree(c)
    \/ \E c \in Containers : DoStepResetStructData(c)
    \/ \E c \in Containers : DoStepAssign(c)
    \/ \E c \in Containers : DoStepMalloc(c)
    \/ \E c \in Containers : DoStepInitializeStruct(c)
    \/ \E c \in Containers : DoStepCopyScriptStruct(c)

SpecThreads == Init /\ [][NextThreads]_vars

(***************************************************************************)
(* Properties saved by FInstancedStruct and loaded by the container.       *)
(***************************************************************************)
\* The versions of FInstancedStruct an archive was written with: none (very
\* old), the one that added the custom version, a later one.
InstancedVersions == {-1, 0, 1}

\* What FInstancedStruct wrote: before the custom version the header (in
\* editor builds) and the version byte, then the type, the size and the value.
DoWriteInstanced(ver, header, T, v) ==
    /\ ~Ar.loading
    /\ Len(Ar.log) < MaxSaved + MaxRemoved
    /\ Ar.log = <<>> \/ Ar.customVer = ver
    /\ header => ver < 0
    /\ LET sub == IF ver < 0 THEN (IF header THEN LegacyEditorHeader ELSE <<>>) \o <<0>> ELSE <<>>
           payload == IF T = nullptr THEN <<>> ELSE TaggedFields(v, FALSE, <<>>, 1)
           r == ArWrite(ArWrite(ArWrite(ArWrite(Now, sub), <<TypeRef(T)>>), Int32ToBytes(Len(payload))), payload)
       IN  Commit([r EXCEPT !.Ar.customVer = ver,
                            !.Ar.log = Append(@, [at |-> Ar.pos,
                                                  cell |-> IF T = nullptr THEN RawCell ELSE Obj(T, v),
                                                  defaults |-> NoDefaults])],
                  OpRec("WriteInstanced", 0, 0, T, RawCell))

\* The tag of the property and the format of the archive, as the call sees them.
TagArg(TagIsInstancedStruct, IsTextFormat) == [type |-> "tag", val |-> <<TagIsInstancedStruct, IsTextFormat>>]

DoSerializeFromMismatchedTag(c, TagIsInstancedStruct, IsTextFormat) ==
    /\ Ar.loading
    /\ \E i \in 1..Len(Ar.log) : Ar.log[i].at = Ar.pos
    /\ \E nb \in Blocks :
          Commit(SerializeFromMismatchedTag(Cur(RawCell, nb), c, TagIsInstancedStruct, IsTextFormat),
                 OpRec("SerializeFromMismatchedTag", c, 0, nullptr, TagArg(TagIsInstancedStruct, IsTextFormat)))

NextMismatchedTag ==
    \/ \E c \in Streamed, T \in SystemTypes : \E v \in ValuesOf(T) : DoMake(c, T, v, TRUE)
    \/ \E c \in Streamed : DoReset(c)
    \/ \E ver \in InstancedVersions, header \in BOOLEAN, T \in SystemTypes \cup {nullptr} :
          \E v \in ValuesOf(T) : DoWriteInstanced(ver, header, T, v)
    \/ DoOpenReader
    \/ \E c \in Streamed, TagIsInstancedStruct, IsTextFormat \in BOOLEAN :
          DoSerializeFromMismatchedTag(c, TagIsInstancedStruct, IsTextFormat)
    \/ DoNewArchive

SpecMismatchedTag == Init /\ [][NextMismatchedTag]_vars

(***************************************************************************)
(* One container's bytes under InitializeAs and Reset.                     *)
(***************************************************************************)
\* What a destructor may fill the bytes with: nothing, or 0xDD.
PoisonBytes == {0, 221}

DoStorageInitializeAs(T, v, NewBlock, poison) ==
    /\ Storage' = [StorageInitializeAs(Storage, T, v, NewBlock, poison) EXCEPT !.op = "InitializeAs"]
    /\ UNCHANGED <<ScriptStruct, StructMemory, StructBuffer, Heap, AllocatedBy, Allocs, Frees, Fault, Ar, lastOp,
                   probe, StructureToReinstance, Threads, Text>>

DoStorageReset(poison) ==
    /\ Storage' = [StorageReset(Storage, poison) EXCEPT !.op = "Reset"]
    /\ UNCHANGED <<ScriptStruct, StructMemory, StructBuffer, Heap, AllocatedBy, Allocs, Frees, Fault, Ar, lastOp,
                   probe, StructureToReinstance, Threads, Text>>

NextStorage ==
    \/ \E T \in {"FIntPoint", "FVector", "FTransform"}, NewBlock \in Blocks, poison \in PoisonBytes :
          \E v \in ValuesOf(T) : DoStorageInitializeAs(T, v, NewBlock, poison)
    \/ \E poison \in PoisonBytes : DoStorageReset(poison)

SpecStorage == Init /\ [][NextStorage]_vars

(***************************************************************************)
(* Text import and export of one container: the texts a caller hands to    *)
(* ImportTextItem, and what ExportTextItem wrote.                          *)
(***************************************************************************)
\* As many characters as an exported text may have before the next export.
MaxValueStr == 4

\* None in several spellings, bare and quoted.
NoneTexts ==
    {NoneText, <<"n", "o", "n", "e">>, <<"N", "O", "N", "E">>, <<"n", "O", "n", "E">>,
     <<QuoteChar>> \o NoneText \o <<QuoteChar>>, <<QuoteChar, "n", "o", "n", "e", QuoteChar>>}

\* A quoted empty name, and the empty struct marker.
EmptyNameTexts == {<<QuoteChar, QuoteChar>>, <<"(", ")">>}

\* Names of no loaded struct.
UnloadableTexts == {<<"/", "G", "o", "n", "e">>, <<"/", "G", "o", "n", "e", "(", "1", ")">>, <<"N", "o", "n">>}

\* Quoted strings that are not closed.
UnreadableTexts == {<<QuoteChar, "N", "o", "n", "e">>, <<QuoteChar>>}

ImportTexts ==
    NoneTexts \cup EmptyNameTexts \cup UnloadableTexts \cup UnreadableTexts
        \cup {<<>>, <<"(", ")", ",">>, GetPathName("FVector"),
              <<"/", "V", "e", "c", "(", "1", ")">>,
              GetPathName("FTransform") \o <<"(", "1", ")">>,
              GetPathName("FPlane") \o <<"(", "1", "0", ")", ",">>}

\* The caller takes a text, or the text exported last, as the next buffer.
DoSetBuffer(text) ==
    /\ Commit([Now EXCEPT !.Buffer = text, !.ValueStr = <<>>], OpRec("SetBuffer", 0, 0, nullptr, RawCell))

DoExportTextItem(c) ==
    /\ Len(Text.ValueStr) < MaxValueStr
    /\ Commit(ExportTextItem(Now, c), OpRec("ExportTextItem", c, 0, nullptr, RawCell))

DoImportTextItem(c) ==
    \E nb \in Blocks :
        Commit(ImportTextItem(Cur(RawCell, nb), c), OpRec("ImportTextItem", c, 0, nullptr, RawCell))

NextText ==
    \/ \E c \in Streamed, T \in Types : \E v \in ValuesOf(T) : DoMake(c, T, v, TRUE)
    \/ \E c \in Streamed : DoReset(c)
    \/ \E text \in ImportTexts \cup {Text.ValueStr} : DoSetBuffer(text)
    \/ \E c \in Streamed : DoExportTextItem(c)
    \/ \E c \in Streamed : DoImportTextItem(c)

SpecText == Init /\ [][NextText]_vars

(***************************************************************************)
(* Properties.                                                             *)
(***************************************************************************)
AllEmpty == \A c \in Slots : ScriptStruct[c] = nullptr

\* The step is a call of one of ops on two different containers.
IsCall(ops) == lastOp'.op \in ops /\ lastOp'.dst # lastOp'.src

\* The record of the archive that starts at the cursor.
RecordAt(ar) == CHOOSE i \in 1..Len(ar.log) : ar.log[i].at = ar.pos

HasRecordAt(ar) == \E i \in 1..Len(ar.log) : ar.log[i].at = ar.pos

\* Where record i of the archive ends.
RecordEnd(ar, i) == IF i < Len(ar.log) THEN ar.log[i + 1].at ELSE Len(ar.data)

\* C1: over every sequence of InitializeAs and Reset calls (and the other
\* lifecycle operations) with inline- and heap-placed descriptors, no block
\* is freed twice, none is used after it was freed, and once a final Reset or
\* destruction has left every container empty the number of frees equals the
\* number of allocations and no block is still allocated.
C1_FreesEqualAllocs ==
    /\ Fault \notin {"double free", "invalid free", "use after free"}
    /\ AllEmpty => (Allocs = Frees /\ \A b \in Blocks : Heap[b] = FreeCell)

\* A final Reset after heap blocks were allocated and freed.
C1_Witness ==
    /\ lastOp.op = "Reset"
    /\ AllEmpty
    /\ Allocs >= 2
    /\ Allocs = Frees

\* C2: after b = move(a), by move assignment or move construction, with a
\* non-empty (inline- or heap-placed) and b in any prior state: a is empty,
\* b is valid and holds the type and the value a held before the move.
C2_MoveTransfersValue ==
    [][(IsCall({"MoveAssign", "MoveConstruct"}) /\ IsValid(Now, lastOp'.src))
        => /\ ~IsValid(Now', lastOp'.src)
           /\ IsValid(Now', lastOp'.dst)
           /\ GetScriptStruct(Now', lastOp'.dst) = GetScriptStruct(Now, lastOp'.src)
           /\ Holds(Now', lastOp'.dst) = Holds(Now, lastOp'.src)
           /\ Holds(Now', lastOp'.dst).type \in Types
           /\ Fault' = "none"]_vars

\* A move assignment has emptied its source and left a heap-placed value in
\* the destination.
C2_Witness ==
    /\ lastOp.op = "MoveAssign"
    /\ lastOp.dst # lastOp.src
    /\ ~IsValid(Now, lastOp.src)
    /\ Holds(Now, lastOp.dst) = Obj("FTransform", [i \in 1..1 |-> MaxVal])

\* C3: after copy construction or copy assignment b = a: if a is non-empty,
\* b is Identical to a, a's descriptor, storage and value are unchanged and b
\* owns storage distinct from a's; if a is empty, b ends empty, its previous
\* value destroyed and its heap block freed.
C3_CopyMakesIdentical ==
    [][IsCall({"CopyAssign", "CopyConstruct"})
        => LET a == lastOp'.src
               b == lastOp'.dst
           IN  /\ Fault' = "none"
               /\ IsValid(Now, a)
                    => /\ Identical(Now', b, a)
                       /\ ScriptStruct'[a] = ScriptStruct[a]
                       /\ StructMemory'[a] = StructMemory[a]
                       /\ StructBuffer'[a] = StructBuffer[a]
                       /\ GetMemory(Now', a) = GetMemory(Now, a)
                       /\ Holds(Now', a) = Holds(Now, a)
                       /\ GetMemory(Now', b) \notin {NullPtr, GarbagePtr, GetMemory(Now', a)}
               /\ ~IsValid(Now, a)
                    => /\ ~IsValid(Now', b)
                       /\ GetMemory(Now', b) = NullPtr
                       /\ StructBuffer'[b] = RawCell
                       /\ IF GetMemory(Now, b).kind = "heap"
                          THEN Heap'[GetMemory(Now, b).at] = FreeCell /\ Frees' = Frees + 1
                          ELSE Frees' = Frees]_vars

\* A copy assignment has left two containers with equal heap-placed values.
C3_Witness ==
    /\ lastOp.op = "CopyAssign"
    /\ lastOp.dst # lastOp.src
    /\ Identical(Now, lastOp.dst, lastOp.src)
    /\ GetMemory(Now, lastOp.dst).kind = "heap"
    /\ GetMemory(Now, lastOp.src).kind = "heap"

\* C4: round trip.  Loading a record that Serialize saved, with the defaults
\* it was saved with (none, for the plain call), leaves the container valid
\* with the type and the value the saved container held, for inline- and
\* heap-placed types, the cursor at the end of the record.
C4_RoundTrip ==
    [][(lastOp'.op = "SerializeLoad" /\ HasRecordAt(Ar)
        /\ Ar.log[RecordAt(Ar)].cell.type # "FRemovedStruct"
        /\ Ar.log[RecordAt(Ar)].defaults = lastOp'.arg)
        => /\ Holds(Now', lastOp'.dst) = Ar.log[RecordAt(Ar)].cell
           /\ IsValid(Now', lastOp'.dst) <=> Ar.log[RecordAt(Ar)].cell.type \in Types
           /\ Ar'.pos = RecordEnd(Ar, RecordAt(Ar))
           /\ ~Ar'.error
           /\ Fault' = "none"]_vars

\* A heap-placed value has been loaded from the first record of an archive
\* by the plain call.
C4_Witness ==
    /\ lastOp.op = "SerializeLoad"
    /\ lastOp.arg = NoDefaults
    /\ Len(Ar.log) > 0
    /\ Ar.log[1].defaults = NoDefaults
    /\ Ar.log[1].cell = Obj("FTransform", [i \in 1..1 |-> MaxVal])
    /\ Holds(Now, lastOp.dst) = Ar.log[1].cell
    /\ Ar.pos = Len(Ar.data)

\* The step loads a record whose type reference does not resolve.
LoadsRemoved ==
    /\ lastOp'.op = "SerializeLoad"
    /\ HasRecordAt(Ar)
    /\ Ar.log[RecordAt(Ar)].cell.type = "FRemovedStruct"

\* C5 as stated: whenever Serialize loads a record whose type reference does
\* not resolve, whatever the call's defaults, the cursor ends L bytes past
\* the length field, the container is left empty and Serialize returns true.
C5_Original ==
    [][LoadsRemoved
        => /\ Ar'.pos = Ar.pos + 1 + 4 + Len(Ar.log[RecordAt(Ar)].cell.val)
           /\ ~IsValid(Now', lastOp'.dst)
           /\ lastOp'.ret = "true"]_vars

\* C5 amended: when Serialize loads a record whose type reference does not
\* resolve, for any prior state of the container and any recorded length L:
\* the cursor ends exactly L bytes past the length field and Serialize
\* returns true; the container is left empty if the call has no defaults or
\* an empty defaults view, and holds the defaults otherwise; a saved record
\* that follows is then loaded with its type and value.
C5_SkipUnresolved ==
    [][/\ LoadsRemoved
          => /\ Ar'.pos = Ar.pos + 1 + 4 + Len(Ar.log[RecordAt(Ar)].cell.val)
             /\ ~Ar'.error
             /\ lastOp'.ret = "true"
             /\ Fault' = "none"
             /\ lastOp'.arg \in {NoDefaults, EmptyView}
                  => (~IsValid(Now', lastOp'.dst) /\ GetMemory(Now', lastOp'.dst) = NullPtr)
             /\ lastOp'.arg \notin {NoDefaults, EmptyView}
                  => Holds(Now', lastOp'.dst) = lastOp'.arg
       /\ (lastOp.op = "SerializeLoad" /\ lastOp.type = "FRemovedStruct"
           /\ lastOp'.op = "SerializeLoad" /\ lastOp'.type # "FRemovedStruct")
          => /\ HasRecordAt(Ar)
             /\ Ar.log[RecordAt(Ar)].defaults = lastOp'.arg
                  => /\ Holds(Now', lastOp'.dst) = Ar.log[RecordAt(Ar)].cell
                     /\ IsValid(Now', lastOp'.dst) <=> Ar.log[RecordAt(Ar)].cell.type \in Types]_vars

\* The record of a removed struct, L > 0, has been skipped by the plain call
\* with the container left empty, the cursor at the saved record that
\* follows it.
C5_Witness ==
    /\ lastOp.op = "SerializeLoad"
    /\ lastOp.type = "FRemovedStruct"
    /\ lastOp.arg = NoDefaults
    /\ ~IsValid(Now, lastOp.dst)
    /\ Len(Ar.log) = 2
    /\ Len(Ar.log[1].cell.val) > 0
    /\ Ar.pos = Ar.log[2].at
    /\ Ar.log[2].cell.type \in Types

\* C6: for every descriptor whose size is a positive multiple of its
\* power-of-two alignment, RequiresMemoryAllocation is true exactly if the
\* size exceeds BUFFER_SIZE or the alignment exceeds the container's; a size
\* of exactly BUFFER_SIZE is placed inline.
C6_PlacementRule ==
    /\ probe.result <=> (probe.StructureSize > BUFFER_SIZE \/ probe.MinAlignment > ALIGNOF_FVariadicStruct)
    /\ probe.StructureSize = BUFFER_SIZE => ~probe.result
    /\ probe.MinAlignment > ALIGNOF_FVariadicStruct => probe.result

\* A descriptor aligned more strictly than the container has been placed on
\* the heap.
C6_Witness ==
    /\ probe.MinAlignment > ALIGNOF_FVariadicStruct
    /\ probe.StructureSize % probe.MinAlignment = 0
    /\ probe.result

\* C7: a container that holds a derived type D gives, for a base B of D other
\* than D, a non-null GetValuePtr<B> and GetMutableValuePtr<B> in polymorphic
\* mode, whose value is the base part of the D held (as Make wrote it), and
\* null in exact mode.
C7_BaseSliceAccess ==
    \A c \in Containers : \A B \in Types :
        (IsValid(Now, c) /\ B # GetScriptStruct(Now, c) /\ IsChildOf(GetScriptStruct(Now, c), B))
        => /\ GetValuePtr(Now, c, B, FALSE) # NullPtr
           /\ GetMutableValuePtr(Now, c, B, FALSE) # NullPtr
           /\ Holds(Now, c).type = GetScriptStruct(Now, c)
           /\ GetTypedPtr(Now, B, GetValuePtr(Now, c, B, FALSE))
                = Obj(B, SubSeq(Holds(Now, c).val, 1, NumFields(B)))
           /\ GetTypedPtr(Now, B, GetMutableValuePtr(Now, c, B, FALSE))
                = Obj(B, SubSeq(Holds(Now, c).val, 1, NumFields(B)))
           /\ (lastOp.op = "Make" /\ lastOp.dst = c)
                => GetTypedPtr(Now, B, GetValuePtr(Now, c, B, FALSE))
                      = Obj(B, SubSeq(lastOp.arg.val, 1, NumFields(B)))
           /\ GetValuePtr(Now, c, B, TRUE) = NullPtr
           /\ GetMutableValuePtr(Now, c, B, TRUE) = NullPtr

\* Make has built an FPlane whose FVector part is not the default.
C7_Witness ==
    /\ lastOp.op = "Make"
    /\ lastOp.type = "FPlane"
    /\ lastOp.arg.val[1] = MaxVal
    /\ GetScriptStruct(Now, lastOp.dst) = "FPlane"
    /\ GetValuePtr(Now, lastOp.dst, "FVector", FALSE).kind = "heap"

\* C8: Make(v), for a type of a size below, equal to or above BUFFER_SIZE,
\* returns a valid container with IsTypeOf<T>, non-null GetValuePtr<T> and
\* GetMutableValuePtr<T> and GetValue<T> = v; Make(c.GetScriptStruct(),
\* c.GetMemory()) of a valid container c returns a container equal to c.
C8_MakeHoldsValue ==
    /\ lastOp.op = "Make"
         => /\ IsValid(Now, lastOp.dst)
            /\ IsTypeOf(Now, lastOp.dst, lastOp.type, FALSE)
            /\ GetValuePtr(Now, lastOp.dst, lastOp.type, FALSE) \notin {NullPtr, GarbagePtr}
            /\ GetMutableValuePtr(Now, lastOp.dst, lastOp.type, FALSE) \notin {NullPtr, GarbagePtr}
            /\ GetValue(Now, lastOp.dst, lastOp.type, FALSE) = lastOp.arg
            /\ GetMutableValue(Now, lastOp.dst, lastOp.type, FALSE) = lastOp.arg
            /\ Fault = "none"
    /\ (lastOp.op = "MakeFrom" /\ IsValid(Now, lastOp.src))
         => /\ IsValid(Now, lastOp.dst)
            /\ OperatorEq(Now, lastOp.dst, lastOp.src)
            /\ ~OperatorNe(Now, lastOp.dst, lastOp.src)
            /\ Fault = "none"

\* Make(c.GetScriptStruct(), c.GetMemory()) has returned a copy of a
\* container that holds a heap-placed value.
C8_Witness ==
    /\ lastOp.op = "MakeFrom"
    /\ GetScriptStruct(Now, lastOp.src) = "FTransform"
    /\ GetValue(Now, lastOp.dst, "FTransform", FALSE) = Obj("FTransform", [i \in 1..1 |-> MaxVal])

\* C9: a new container is empty, and an empty container is not valid, is of
\* no type, and returns null from GetValuePtr<T> and GetMutableValuePtr<T>
\* for every T in both modes.
C9_EmptyGivesNull ==
    /\ lastOp = NoOp => \A c \in Slots : ~IsValid(Now, c) /\ GetMemory(Now, c) = NullPtr
    /\ \A c \in Containers :
          GetScriptStruct(Now, c) = nullptr
          => /\ ~IsValid(Now, c)
             /\ \A T \in Types, bExactType \in BOOLEAN :
                   /\ ~IsTypeOf(Now, c, T, bExactType)
                   /\ GetValuePtr(Now, c, T, bExactType) = NullPtr
                   /\ GetMutableValuePtr(Now, c, T, bExactType) = NullPtr

\* The source of a move of an inline-placed value: empty after the buffer
\* held a value.
C9_Witness ==
    /\ lastOp.op = "MoveAssign"
    /\ lastOp.dst # lastOp.src
    /\ GetScriptStruct(Now, lastOp.src) = nullptr
    /\ GetScriptStruct(Now, lastOp.dst) = "FVector"

\* C10: Identical(a, b) and operator== are true exactly if both containers
\* hold a value, of the very same descriptor, and the values compare equal;
\* they are false if either is empty, also if both are, and if the
\* descriptors differ, also if one derives from the other; operator!= is the
\* negation.
C10_IdenticalExactType ==
    \A a, b \in Containers :
        /\ Identical(Now, a, b)
             <=> /\ IsValid(Now, a)
                 /\ IsValid(Now, b)
                 /\ GetScriptStruct(Now, a) = GetScriptStruct(Now, b)
                 /\ Holds(Now, a).val = Holds(Now, b).val
        /\ OperatorEq(Now, a, b) <=> Identical(Now, a, b)
        /\ OperatorNe(Now, a, b) <=> ~OperatorEq(Now, a, b)
        /\ (~IsValid(Now, a) \/ ~IsValid(Now, b)) => ~Identical(Now, a, b)
        /\ GetScriptStruct(Now, a) # GetScriptStruct(Now, b) => ~Identical(Now, a, b)

\* An FPlane and an FVector with the same FVector part are not identical.
C10_Witness ==
    /\ GetScriptStruct(Now, 1) = "FPlane"
    /\ GetScriptStruct(Now, 2) = "FVector"
    /\ Holds(Now, 1).val[1] = Holds(Now, 2).val[1]
    /\ ~Identical(Now, 1, 2)
    /\ OperatorNe(Now, 1, 2)

(***************************************************************************)
(* Ownership of values and heap blocks.                                    *)
(***************************************************************************)
\* Where container c has a constructed, not yet destroyed value: in its
\* buffer, or in the heap block its StructMemory points at.
Constructed(c) ==
    (IF StructBuffer[c].type \in Types THEN {BufPtr(c)} ELSE {})
        \cup (IF StructMemory[c].kind = "heap" /\ Heap[StructMemory[c].at].type \in Types
              THEN {StructMemory[c]}
              ELSE {})

\* C11: in every reachable state, after any sequence of initializations,
\* resets, copies, moves, saves and loads, a container's descriptor is null
\* exactly when the container holds no constructed value; a non-null
\* descriptor comes with exactly one value, of that type, at the container's
\* memory, and no value is lost undestroyed or lives in a block no container
\* points at.
C11_DescriptorIffValue ==
    /\ Fault = "none"
    /\ \A c \in Slots :
          /\ ScriptStruct[c] = nullptr <=> Constructed(c) = {}
          /\ ScriptStruct[c] # nullptr =>
                /\ Constructed(c) = {GetMemory(Now, c)}
                /\ Read(Now, GetMemory(Now, c)).type = ScriptStruct[c]
    /\ \A b \in Blocks :
          Heap[b].type \in Types => \E c \in Slots : StructMemory[c] = HeapPtr(b)

\* A load has just filled a container with a heap-placed value while the other
\* container is empty.
C11_Witness ==
    /\ lastOp.op = "SerializeLoad"
    /\ lastOp.dst \in Containers
    /\ ScriptStruct[lastOp.dst] = "FTransform"
    /\ Constructed(lastOp.dst) = {StructMemory[lastOp.dst]}
    /\ \E c \in Containers : ScriptStruct[c] = nullptr /\ Constructed(c) = {}

\* The containers whose StructMemory names block b.
Owners(b) == {c \in Slots : StructMemory[c] = HeapPtr(b)}

\* The frees of a trace, and the container a free is made by: Reset frees the
\* block and then clears its container's members.
FreesOf(tr) == {i \in DOMAIN tr : tr[i].ev = "Free"}

FreedBy(tr, i) == IF i < Len(tr) /\ tr[i + 1].ev = "ResetStructData" THEN tr[i + 1].at.at ELSE 0

\* The trace assigns the descriptor of container k before its i-th call.
DescriptorAssignedBefore(tr, i, k) ==
    \E j \in 1..(i - 1) : tr[j].ev \in {"ScriptStruct", "ResetStructData"} /\ tr[j].at = BufPtr(k)

\* C12 as stated: every block is freed by the container instance that
\* allocated it.
C12_Original ==
    [][\A i \in FreesOf(lastOp'.trace) :
          AllocatedBy[lastOp'.trace[i].at.at] = FreedBy(lastOp'.trace, i)]_vars

\* C12: at every point each allocated block is owned by exactly one container
\* (so a container owns at most one), no block is freed twice, and a block is
\* freed by the container that owns it when the call starts, the one that
\* allocated it or the one it was moved to, before that container's
\* descriptor is assigned.
C12_FreedOnceByOwner ==
    [][/\ Fault' \notin {"double free", "invalid free"}
       /\ \A b \in Blocks :
             /\ Heap'[b] # FreeCell <=> AllocatedBy'[b] # 0
             /\ Heap'[b] # FreeCell => Cardinality(Owners(b)') = 1
             /\ Heap'[b] = FreeCell => Owners(b)' = {}
       /\ \A i \in FreesOf(lastOp'.trace) :
             LET tr == lastOp'.trace
                 k == FreedBy(tr, i)
             IN  /\ k \in Slots
                 /\ StructMemory[k] = tr[i].at
                 /\ Heap[tr[i].at.at] # FreeCell
                 /\ ScriptStruct[k] # nullptr /\ RequiresMemoryAllocation(UScriptStruct(ScriptStruct[k]))
                 /\ ~DescriptorAssignedBefore(tr, i, k)
                 /\ \A j \in FreesOf(tr) : tr[j].at = tr[i].at => j = i]_vars

\* A container has just freed the block it owned while another container
\* owns a block that the first one allocated and moved to it.
C12_Witness ==
    /\ lastOp.op \in {"Reset", "Destructor", "InitializeAs", "InitializeAsT"}
    /\ FreesOf(lastOp.trace) # {}
    /\ Frees >= 1
    /\ \E c \in Containers : c # lastOp.dst /\ StructMemory[c].kind = "heap" /\ AllocatedBy[StructMemory[c].at] = lastOp.dst

\* C13: in every reachable state of several containers, after any sequence
\* of copies, moves, initializations and resets, no two distinct containers
\* hold the same heap block.
C13_NoSharedBlock ==
    \A c, d \in Slots :
        c # d /\ StructMemory[c].kind = "heap" => StructMemory[c] # StructMemory[d]

\* A copy or a move has just run and both containers hold a heap-placed value,
\* each in a block of its own.
C13_Witness ==
    /\ lastOp.op \in {"CopyConstruct", "CopyAssign", "MoveConstruct", "MoveAssign"}
    /\ lastOp.dst # lastOp.src
    /\ \A c \in Containers :
          /\ ScriptStruct[c] = "FTransform"
          /\ StructMemory[c].kind = "heap"
          /\ Heap[StructMemory[c].at].type = "FTransform"
    /\ StructMemory[1] # StructMemory[2]

\* The calls of a trace made on the memory p, the assignments of members apart.
CallsAt(tr, p) == {i \in DOMAIN tr : tr[i].ev # "ResetStructData" /\ (tr[i].at = p \/ tr[i].from = p)}

\* C14: a move from an inline-placed source copies the value into the
\* destination with the descriptor's copy operation and then destroys the
\* source's value with the descriptor, and never hands the buffer over as
\* bytes; a move from a heap-placed source hands the descriptor and the heap
\* pointer to the destination and clears the source, with no construct, copy,
\* destroy, allocation or free on the moved block, whose value is untouched.
C14_MoveAsymmetric ==
    [][IsCall({"MoveConstruct", "MoveAssign"}) /\ ScriptStruct[lastOp'.src] # nullptr =>
          LET dst == lastOp'.dst
              src == lastOp'.src
              T == ScriptStruct[src]
              tr == lastOp'.trace
          IN  IF ~RequiresMemoryAllocation(UScriptStruct(T))
              THEN /\ \E i, j \in DOMAIN tr :
                         /\ i < j
                         /\ tr[i] = Event("CopyScriptStruct", T, BufPtr(dst), BufPtr(src))
                         /\ tr[j] = Event("DestroyStruct", T, BufPtr(src), NullPtr)
                   /\ \A i \in DOMAIN tr :
                         tr[i].ev = "ResetStructData" => tr[i].type = nullptr /\ tr[i].from = NullPtr
                   /\ StructBuffer'[dst] = StructBuffer[src]
                   /\ ScriptStruct'[dst] = T
                   /\ ScriptStruct'[src] = nullptr
                   /\ StructBuffer'[src] = RawCell
              ELSE /\ CallsAt(tr, StructMemory[src]) = {}
                   /\ \A i \in DOMAIN tr : tr[i].ev # "Malloc"
                   /\ \E i \in DOMAIN tr : tr[i] = Event("ResetStructData", T, BufPtr(dst), StructMemory[src])
                   /\ tr[Len(tr)] = Event("ResetStructData", nullptr, BufPtr(src), NullPtr)
                   /\ ScriptStruct'[dst] = T
                   /\ StructMemory'[dst] = StructMemory[src]
                   /\ Heap'[StructMemory[src].at] = Heap[StructMemory[src].at]
                   /\ ScriptStruct'[src] = nullptr
                   /\ StructMemory'[src] = NullPtr]_vars

\* A move assignment from a heap-placed source has just released the
\* destination's own block and taken the source's.
C14_Witness ==
    /\ lastOp.op = "MoveAssign"
    /\ lastOp.dst # lastOp.src
    /\ ScriptStruct[lastOp.dst] = "FTransform"
    /\ ScriptStruct[lastOp.src] = nullptr
    /\ \E i \in DOMAIN lastOp.trace :
          /\ lastOp.trace[i].ev = "ResetStructData"
          /\ lastOp.trace[i].from = StructMemory[lastOp.dst]
    /\ FreesOf(lastOp.trace) # {}

\* The members, the memory and the counts of a working state.
Observed(s) ==
    <<s.ScriptStruct, s.StructMemory, s.StructBuffer, s.Heap, s.AllocatedBy, s.Allocs, s.Frees, s.Fault>>

\* How many calls of ev a trace holds.
CountOf(tr, ev) == Cardinality({i \in DOMAIN tr : tr[i].ev = ev})

\* C15: after Reset the container is invalid; a Reset of an already empty
\* container destroys nothing, frees nothing and leaves everything as it
\* was; and a second Reset right after a Reset changes neither the state nor
\* the numbers of allocations, frees and destroys.
C15_ResetIdempotent ==
    [][lastOp'.op = "Reset" =>
          LET c == lastOp'.dst
              again == Reset(Now', c)
          IN  /\ ~IsValid(Now', c)
              /\ GetMemory(Now', c) = NullPtr
              /\ Fault' = "none"
              /\ Observed(again) = Observed(Now')
              /\ CountOf(again.Trace, "DestroyStruct") = 0
              /\ CountOf(again.Trace, "Free") = 0
              /\ CountOf(again.Trace, "Malloc") = 0
              /\ ScriptStruct[c] = nullptr =>
                    /\ Observed(Now') = Observed(Now)
                    /\ CountOf(lastOp'.trace, "DestroyStruct") = 0
                    /\ CountOf(lastOp'.trace, "Free") = 0]_vars

\* A Reset has just destroyed a heap-placed value and freed its block.
C15_Witness ==
    /\ lastOp.op = "Reset"
    /\ ScriptStruct[lastOp.dst] = nullptr
    /\ CountOf(lastOp.trace, "DestroyStruct") = 1
    /\ CountOf(lastOp.trace, "Free") = 1
    /\ Frees >= 1

\* C16: copy-assigning and move-assigning a container to itself change
\* nothing: descriptor, storage, value and the allocation and free counts
\* are as before and no call is made to FMemory or to the descriptor,
\* whether the container is empty, inline-placed or heap-placed.
C16_SelfAssignNoOp ==
    [][lastOp'.op \in {"CopyAssign", "MoveAssign"} /\ lastOp'.dst = lastOp'.src =>
          /\ Observed(Now') = Observed(Now)
          /\ Holds(Now', lastOp'.dst) = Holds(Now, lastOp'.dst)
          /\ lastOp'.trace = <<>>]_vars

\* A container with a heap-placed value has just been move-assigned to
\* itself while the other container holds an inline-placed value.
C16_Witness ==
    /\ lastOp.op = "MoveAssign"
    /\ lastOp.dst = lastOp.src
    /\ lastOp.dst \in Containers
    /\ ScriptStruct[lastOp.dst] = "FTransform"
    /\ Heap[StructMemory[lastOp.dst].at].type = "FTransform"
    /\ \E c \in Containers : ScriptStruct[c] = "FVector"

\* C17: InitializeAs with a descriptor ends in the assertion exactly when the
\* descriptor is one of the struct wrappers (FVariadicStruct, FInstancedStruct,
\* FSharedStruct, FConstSharedStruct), leaving the container as it was, and
\* takes null and every other descriptor; in no reachable state is a
\* container's descriptor one of the wrappers, a load of a record that names
\* a wrapper included.
C17_UnsupportedRejected ==
    /\ [](\A c \in Slots : ScriptStruct[c] \notin UnsupportedTypes)
    /\ [][/\ lastOp'.op = "InitializeAs" =>
                IF lastOp'.type \in UnsupportedTypes
                THEN Fault' = "unsupported type" /\ Observed([Now' EXCEPT !.Fault = "none"]) = Observed(Now)
                ELSE Fault' = "none" /\ ScriptStruct'[lastOp'.dst] = lastOp'.type
          /\ lastOp'.op = "SerializeLoad" /\ lastOp'.type \in UnsupportedTypes =>
                \/ Fault' = "unsupported type" /\ ScriptStruct'[lastOp'.dst] = ScriptStruct[lastOp'.dst]
                \/ /\ Fault' = "none"
                   /\ lastOp'.arg # NoDefaults
                   /\ ScriptStruct'[lastOp'.dst] = ViewScriptStruct(lastOp'.arg)]_vars

\* A load of a record that names FInstancedStruct has just ended in the
\* assertion, the container still holding the value it held.
C17_Witness ==
    /\ lastOp.op = "SerializeLoad"
    /\ lastOp.type = "FInstancedStruct"
    /\ Fault = "unsupported type"
    /\ ScriptStruct[lastOp.dst] = "FVector"

\* The bytes i..j of a stream.
Bytes(data, i, j) == SubSeq(data, i, j)

\* C18: a saving Serialize that starts at the cursor S writes the descriptor
\* reference, then the 4-byte length field at P0, then the payload; when it
\* returns the length field holds the number of payload bytes P1 - P0 - 4,
\* which is not negative and is 0 exactly for an empty container, the cursor
\* is at the end P1 of the payload, and the bytes before S are as they were.
C18_SaveLayout ==
    [][lastOp'.op = "SerializeSave" =>
          LET c == lastOp'.dst
              S == Ar.pos
              P0 == S + 1
              P1 == Ar'.pos
              SerialSize == BytesToInt32(Bytes(Ar'.data, P0 + 1, P0 + 4))
          IN  /\ lastOp'.ret = "true"
              /\ Fault' = "none"
              /\ ~Ar'.error
              /\ Ar'.data[S + 1] = TypeRef(ScriptStruct'[c])
              /\ P1 >= P0 + 4
              /\ P1 = Len(Ar'.data)
              /\ SerialSize = P1 - P0 - 4
              /\ SerialSize >= 0
              /\ SerialSize = 0 <=> ~IsValid(Now', c)
              /\ CountOf(lastOp'.trace, "SerializeItem") = (IF IsValid(Now', c) THEN 1 ELSE 0)
              /\ Bytes(Ar'.data, 1, S) = Bytes(Ar.data, 1, S)]_vars

\* A save has just written an FPlane of five payload bytes behind an earlier
\* record.
C18_Witness ==
    /\ lastOp.op = "SerializeSave"
    /\ ScriptStruct[lastOp.dst] = "FPlane"
    /\ Len(Ar.log) = 2
    /\ Ar.log[2].at > 0
    /\ BytesToInt32(Bytes(Ar.data, Ar.log[2].at + 2, Ar.log[2].at + 5)) = 5
    /\ Ar.pos = Ar.log[2].at + 10

\* The step loads a record with defaults whose type is not the type read.
LoadsWithMismatch ==
    /\ lastOp'.op = "SerializeLoad"
    /\ lastOp'.arg # NoDefaults
    /\ ViewScriptStruct(lastOp'.arg) # ResolveTypeRef(Ar.data[Ar.pos + 1])

\* C19: when Serialize loads a record with defaults whose type differs from
\* the type read, an unresolved type read included, the container ends with
\* the defaults' type and a copy of the defaults' value, the cursor ends
\* exactly the recorded length past the length field, and nothing of the
\* record's payload is deserialized into the container.
C19_DefaultsMismatch ==
    [][LoadsWithMismatch =>
          LET c == lastOp'.dst
              D == lastOp'.arg
              SerialSize == BytesToInt32(Bytes(Ar.data, Ar.pos + 2, Ar.pos + 5))
          IN  /\ lastOp'.ret = "true"
              /\ Fault' = "none"
              /\ ~Ar'.error
              /\ ScriptStruct'[c] = ViewScriptStruct(D)
              /\ ViewScriptStruct(D) # nullptr => Holds(Now', c) = D
              /\ ViewScriptStruct(D) = nullptr => GetMemory(Now', c) = NullPtr
              /\ Ar'.pos = Ar.pos + 1 + 4 + SerialSize
              /\ Ar'.data = Ar.data
              /\ CountOf(lastOp'.trace, "SerializeItem") = 0]_vars

\* A load of an FPlane record with FVector defaults has just left the
\* defaults in the container and the cursor behind the record.
C19_Witness ==
    /\ lastOp.op = "SerializeLoad"
    /\ lastOp.type = "FPlane"
    /\ lastOp.arg = Obj("FVector", [i \in 1..1 |-> MaxVal])
    /\ Holds(Now, lastOp.dst) = lastOp.arg
    /\ \E i \in 1..Len(Ar.log) :
          /\ Ar.log[i].cell.type = "FPlane"
          /\ Ar.log[i].cell.val[1] # MaxVal
          /\ Ar.pos = RecordEnd(Ar, i)

\* C20: when the reader meets a record of FInstancedStruct in a very old
\* archive, one without the custom version, it consumes the sub-header (the
\* 4-byte header when present, then the version byte; the version byte alone
\* when the header is absent), reads the type, the length and the value, and
\* the container holds the record's value.
C20_LegacyHeader ==
    [][/\ lastOp'.op = "SerializeFromMismatchedTag"
       /\ lastOp'.arg = TagArg(TRUE, FALSE)
       /\ Ar.customVer < 0
       =>
          /\ lastOp'.ret = "true"
          /\ Ar'.pos = RecordEnd(Ar, RecordAt(Ar))
          /\ Holds(Now', lastOp'.dst) = Ar.log[RecordAt(Ar)].cell]_vars

\* C27: InitializeAs with a non-null descriptor equal to the container's
\* active one reuses the storage: it allocates nothing, frees nothing and
\* does not destroy the value, the memory and its placement stay the same,
\* and the value becomes a copy of the source if one is given and the
\* type's default value otherwise.
C27_SameTypeReusesStorage ==
    [][/\ lastOp'.op = "InitializeAs"
       /\ lastOp'.type # nullptr
       /\ lastOp'.type = ScriptStruct[lastOp'.dst]
       =>
          LET c == lastOp'.dst
              T == lastOp'.type
          IN  /\ Fault' = "none"
              /\ lastOp'.trace = <<IF lastOp'.arg = RawCell
                                    THEN Event("ClearScriptStruct", T, GetMemory(Now, c), NullPtr)
                                    ELSE Event("CopyScriptStruct", T, GetMemory(Now, c), ExtPtr)>>
              /\ ScriptStruct'[c] = T
              /\ GetMemory(Now', c) = GetMemory(Now, c)
              /\ StructMemory'[c] = StructMemory[c]
              /\ Allocs' = Allocs
              /\ Frees' = Frees
              /\ AllocatedBy' = AllocatedBy
              /\ Holds(Now', c) = (IF lastOp'.arg = RawCell THEN Obj(T, DefaultValue(T)) ELSE lastOp'.arg)]_vars

\* InitializeAs has just copied a source into the heap block the container
\* already held for the same type, with no allocation made by the call.
C27_Witness ==
    /\ lastOp.op = "InitializeAs"
    /\ lastOp.type = "FTransform"
    /\ lastOp.arg = Obj("FTransform", [i \in 1..1 |-> MaxVal])
    /\ CountOf(lastOp.trace, "CopyScriptStruct") = 1
    /\ CountOf(lastOp.trace, "Malloc") = 0
    /\ Holds(Now, lastOp.dst) = lastOp.arg

\* The allocation of a block for a value of type T.
MallocEvent(T, p) ==
    [Event("Malloc", nullptr, p, NullPtr) EXCEPT !.size = GetStructureSize(T), !.align = GetMinAlignment(T)]

\* C28: InitializeAs with a descriptor other than the active one, or on an
\* empty container, first resets the old value and takes the descriptor;
\* then, only for a non-null descriptor, it allocates a block of the
\* descriptor's size and alignment exactly when the descriptor is
\* heap-placed, default-constructs the value at the selected memory and
\* copies the source if one is given, in this order; with a null descriptor
\* it ends empty and allocates nothing.
C28_InitializeOrder ==
    [][/\ lastOp'.op = "InitializeAs"
       /\ lastOp'.type = nullptr \/ lastOp'.type # ScriptStruct[lastOp'.dst]
       =>
          LET c == lastOp'.dst
              T == lastOp'.type
              MemoryPtr == GetMemory(Now', c)
          IN  /\ Fault' = "none"
              /\ ScriptStruct'[c] = T
              /\ IF T = nullptr
                 THEN /\ lastOp'.trace = Reset(Now, c).Trace \o <<Event("ScriptStruct", T, BufPtr(c), NullPtr)>>
                      /\ MemoryPtr = NullPtr
                      /\ Allocs' = Allocs
                 ELSE /\ lastOp'.trace =
                            Reset(Now, c).Trace
                                \o <<Event("ScriptStruct", T, BufPtr(c), NullPtr)>>
                                \o (IF RequiresMemoryAllocation(UScriptStruct(T))
                                    THEN <<MallocEvent(T, MemoryPtr)>>
                                    ELSE <<>>)
                                \o <<Event("InitializeStruct", T, MemoryPtr, NullPtr)>>
                                \o (IF lastOp'.arg # RawCell
                                    THEN <<Event("CopyScriptStruct", T, MemoryPtr, ExtPtr)>>
                                    ELSE <<>>)
                      /\ MemoryPtr = (IF RequiresMemoryAllocation(UScriptStruct(T))
                                      THEN StructMemory'[c]
                                      ELSE BufPtr(c))
                      /\ RequiresMemoryAllocation(UScriptStruct(T)) => MemoryPtr.kind = "heap"
                      /\ Holds(Now', c) = (IF lastOp'.arg = RawCell THEN Obj(T, DefaultValue(T)) ELSE lastOp'.arg)]_vars

\* InitializeAs has just replaced a heap-placed value by a heap-placed value
\* of another type copied from a source: the old block was freed and a new
\* one allocated.
C28_Witness ==
    /\ lastOp.op = "InitializeAs"
    /\ lastOp.type = "FPlane"
    /\ lastOp.arg # RawCell
    /\ Len(lastOp.trace) = 7
    /\ lastOp.trace[1].ev = "DestroyStruct"
    /\ lastOp.trace[1].type = "FTransform"
    /\ lastOp.trace[5] = MallocEvent("FPlane", StructMemory[lastOp.dst])
    /\ Holds(Now, lastOp.dst) = lastOp.arg

\* C29: Reset on a non-empty container destroys the value through the
\* descriptor, then frees the heap block exactly when the value is
\* heap-placed, then clears the descriptor: the value is never destroyed
\* after its memory is freed and the descriptor never cleared before the
\* destroy.
C29_ResetOrder ==
    [][lastOp'.op \in {"Reset", "Destructor"} /\ ScriptStruct[lastOp'.dst] # nullptr =>
          LET c == lastOp'.dst
              T == ScriptStruct[c]
              MemoryPtr == GetMemory(Now, c)
          IN  /\ Fault' = "none"
              /\ lastOp'.trace =
                    <<Event("DestroyStruct", T, MemoryPtr, NullPtr)>>
                        \o (IF RequiresMemoryAllocation(UScriptStruct(T))
                            THEN <<Event("Free", nullptr, MemoryPtr, NullPtr)>>
                            ELSE <<>>)
                        \o <<Event("ResetStructData", nullptr, BufPtr(c), NullPtr)>>
              /\ MemoryPtr.kind = "heap" <=> RequiresMemoryAllocation(UScriptStruct(T))
              /\ Frees' = Frees + (IF RequiresMemoryAllocation(UScriptStruct(T)) THEN 1 ELSE 0)
              /\ ScriptStruct'[c] = nullptr
              /\ StructMemory'[c] = NullPtr]_vars

\* A Reset has just torn down a heap-placed FPlane in three calls.
C29_Witness ==
    /\ lastOp.op = "Reset"
    /\ Len(lastOp.trace) = 3
    /\ lastOp.trace[1].ev = "DestroyStruct"
    /\ lastOp.trace[1].type = "FPlane"
    /\ lastOp.trace[2].ev = "Free"
    /\ lastOp.trace[2].at = lastOp.trace[1].at
    /\ lastOp.trace[3].ev = "ResetStructData"
    /\ ScriptStruct[lastOp.dst] = nullptr

\* The step loads a record whose type resolves, with no defaults or with
\* defaults of that type.
LoadsResolved ==
    /\ lastOp'.op = "SerializeLoad"
    /\ ResolveTypeRef(Ar.data[Ar.pos + 1]) # nullptr
    /\ lastOp'.arg = NoDefaults \/ ViewScriptStruct(lastOp'.arg) = ResolveTypeRef(Ar.data[Ar.pos + 1])

\* C30: when Serialize loads a record whose type resolves and no defaults
\* mismatch applies, the storage is initialized for the type read exactly
\* when that type differs from the container's or defaults were supplied,
\* the defaults being copied in when present; when the type is the
\* container's and there are no defaults, the value and its storage are kept
\* with no destroy, allocation or free, and the payload is deserialized into
\* it.
C30_LoadInitializesWhenNeeded ==
    [][LoadsResolved =>
          LET c == lastOp'.dst
              D == lastOp'.arg
              T == ResolveTypeRef(Ar.data[Ar.pos + 1])
              tr == lastOp'.trace
              before == IF D # NoDefaults THEN D.val
                        ELSE IF ScriptStruct[c] = T THEN Holds(Now, c).val
                        ELSE DefaultValue(T)
          IN  /\ Fault' = "none"
              /\ ScriptStruct'[c] = T
              /\ Len(tr) >= 1
              /\ tr[Len(tr)] = Event("SerializeItem", T, GetMemory(Now', c), IF D # NoDefaults THEN ExtPtr ELSE NullPtr)
              /\ CountOf(tr, "SerializeItem") = 1
              /\ Holds(Now', c) = Obj(T, ReadTaggedFields(Ar, Ar.pos + 5, before).val)
              /\ IF D # NoDefaults \/ ScriptStruct[c] # T
                 THEN /\ CountOf(tr, "InitializeStruct") + CountOf(tr, "CopyScriptStruct")
                            + CountOf(tr, "ClearScriptStruct") >= 1
                      /\ CountOf(tr, "InitializeStruct") = (IF ScriptStruct[c] # T THEN 1 ELSE 0)
                      /\ CountOf(tr, "CopyScriptStruct") = (IF D # NoDefaults THEN 1 ELSE 0)
                 ELSE /\ Len(tr) = 1
                      /\ StructMemory'[c] = StructMemory[c]
                      /\ Heap'[CHOOSE b \in Blocks : TRUE] \in {Heap[CHOOSE b \in Blocks : TRUE], Holds(Now', c)}
                      /\ Allocs' = Allocs
                      /\ Frees' = Frees]_vars

\* A load with no defaults has just deserialized an FPlane record into the
\* FPlane the container already held, in the block of its only allocation.
C30_Witness ==
    /\ lastOp.op = "SerializeLoad"
    /\ lastOp.type = "FPlane"
    /\ lastOp.arg = NoDefaults
    /\ Len(lastOp.trace) = 1
    /\ lastOp.trace[1].ev = "SerializeItem"
    /\ ScriptStruct[lastOp.dst] = "FPlane"
    /\ Allocs = 1
    /\ Frees = 0

\* The step is a reference walk over the container lastOp'.dst.
IsWalk == lastOp'.op = "AddStructReferencedObjects"

\* What the container reports to the collector when it holds a value of the
\* descriptor T at MemoryPtr.
Reports(T, c, MemoryPtr) ==
    <<Event("AddReferencedObject", T, BufPtr(c), NullPtr),
      Event("AddPropertyReferencesWithStructARO", T, MemoryPtr, NullPtr)>>

\* The calls of the trace that are reports to the collector.
ReportsOf(tr) ==
    SelectSeq(tr, LAMBDA e : e.ev \in {"AddReferencedObject", "AddPropertyReferencesWithStructARO"})

\* The container's descriptor, pointer and buffer, the heap and the counts
\* of allocations and frees are what they were.
StorageUnchanged ==
    /\ ScriptStruct' = ScriptStruct
    /\ StructMemory' = StructMemory
    /\ StructBuffer' = StructBuffer
    /\ Heap' = Heap
    /\ Allocs' = Allocs
    /\ Frees' = Frees

\* C21: a reference walk over a container with no active value reports
\* nothing to the collector, does not fail and leaves the container
\* unchanged; over a container with an active value it reports the
\* descriptor and then the references inside the payload.
C21_WalkReports ==
    [][IsWalk =>
          LET c == lastOp'.dst
          IN  /\ Fault' = "none"
              /\ IF ScriptStruct[c] = nullptr
                 THEN /\ lastOp'.trace = <<>>
                      /\ StorageUnchanged
                 ELSE /\ ScriptStruct'[c] # nullptr
                      /\ ReportsOf(lastOp'.trace) = Reports(ScriptStruct'[c], c, GetMemory(Now', c))
                      /\ SubSeq(lastOp'.trace, Len(lastOp'.trace) - 1, Len(lastOp'.trace))
                            = Reports(ScriptStruct'[c], c, GetMemory(Now', c))
                      /\ IsValueOf(Holds(Now', c), ScriptStruct'[c])]_vars

\* A walk has just reported an FUserTable and the references of its value
\* on the heap, and nothing else was called.
C21_Witness ==
    /\ lastOp.op = "AddStructReferencedObjects"
    /\ ScriptStruct[lastOp.dst] = "FUserTable"
    /\ StructMemory[lastOp.dst].kind = "heap"
    /\ lastOp.trace = Reports("FUserTable", lastOp.dst, StructMemory[lastOp.dst])

\* The container c holds the struct the first pass replaces.
InFirstPass(c) ==
    /\ StructureToReinstance # nullptr
    /\ IsDuplicate(StructureToReinstance)
    /\ ScriptStruct[c] = PrimaryStruct(StructureToReinstance)

\* The container c holds the duplicate the second pass reinstances.
InSecondPass(c) ==
    /\ StructureToReinstance # nullptr
    /\ ~IsDuplicate(StructureToReinstance)
    /\ ScriptStruct[c] \in UserDefinedStructs
    /\ PrimaryStruct(ScriptStruct[c]) = StructureToReinstance

NetLoadsValue ==
    /\ lastOp'.op = "NetSerializeLoad"
    /\ Ar.pos + 2 <= Len(Ar.data)
    /\ Ar.data[Ar.pos + 1] % 2 = 1

\* C23: when NetSerialize loads a record whose bit is set and whose type
\* resolves to no struct, it sets the archive's error and the success flag to
\* false, leaves the container empty and reads no payload; when the type
\* resolves to a struct a container can hold, the container sets neither.
C23_NetUnresolvedType ==
    [][NetLoadsValue =>
          LET c == lastOp'.dst
              T == ResolveTypeRef(Ar.data[Ar.pos + 2])
              tr == lastOp'.trace
          IN  IF T = nullptr
              THEN /\ Fault' = "none"
                   /\ Ar'.error
                   /\ CountOf(tr, "SetError") = 1
                   /\ CountOf(tr, "bOutSuccess") = 1
                   /\ ScriptStruct'[c] = nullptr
                   /\ StructMemory'[c] = NullPtr
                   /\ StructBuffer'[c] = RawCell
                   /\ CountOf(tr, "NetSerializeItem") = 0
                   /\ Ar'.pos = Ar.pos + 2
                   /\ lastOp'.ret = "true"
              ELSE T \notin UnsupportedTypes =>
                      /\ Fault' = "none"
                      /\ CountOf(tr, "SetError") = 0
                      /\ CountOf(tr, "bOutSuccess") = 0
                      /\ Ar'.error = (Ar.error \/ Ar'.pos > Len(Ar.data))
                      /\ ScriptStruct'[c] = T]_vars

\* A container that held an FTransform has just read a record of
\* FRemovedStruct: its value is destroyed and freed, it is empty, and the
\* archive is in error with the payload unread.
C23_Witness ==
    /\ lastOp.op = "NetSerializeLoad"
    /\ lastOp.type = "FRemovedStruct"
    /\ CountOf(lastOp.trace, "DestroyStruct") = 1
    /\ CountOf(lastOp.trace, "Free") = 1
    /\ CountOf(lastOp.trace, "SetError") = 1
    /\ ScriptStruct[lastOp.dst] = nullptr
    /\ Ar.error
    /\ Ar.pos < Len(Ar.data)

\* C24: GetValue<T> and GetMutableValue<T> in exact mode return the value if
\* and only if the descriptor is T's, and assert otherwise, on an empty
\* container and on a struct derived from T too; in polymorphic mode they
\* return it if and only if the descriptor is non-null and is T's or
\* derives from it, and assert otherwise.
C24_GetValueAsserts ==
    Fault = "none" =>
        \A c \in Containers : \A T \in Types :
            LET value == Obj(T, SubSeq(Holds(Now, c).val, 1, NumFields(T)))
                exact == ScriptStruct[c] = T
                poly == ScriptStruct[c] # nullptr /\ IsChildOf(ScriptStruct[c], T)
            IN  /\ GetValue(Now, c, T, TRUE) = (IF exact THEN value ELSE AssertCell)
                /\ GetMutableValue(Now, c, T, TRUE) = (IF exact THEN value ELSE AssertCell)
                /\ GetValue(Now, c, T, FALSE) = (IF poly THEN value ELSE AssertCell)
                /\ GetMutableValue(Now, c, T, FALSE) = (IF poly THEN value ELSE AssertCell)

\* Container 1 holds an FPlane, which derives from FVector, and container 2
\* is empty: GetValue<FVector> asserts on both in exact mode and returns the
\* FVector part of the FPlane in polymorphic mode.
C24_Witness ==
    /\ Fault = "none"
    /\ ScriptStruct[1] = "FPlane"
    /\ ScriptStruct[2] = nullptr
    /\ GetValue(Now, 1, "FVector", TRUE) = AssertCell
    /\ GetValue(Now, 2, "FVector", TRUE) = AssertCell
    /\ GetValue(Now, 2, "FVector", FALSE) = AssertCell
    /\ GetValue(Now, 1, "FVector", FALSE) = Obj("FVector", [i \in 1..1 |-> MaxVal])
    /\ GetMutableValue(Now, 1, "FPlane", TRUE) = Obj("FPlane", [i \in 1..2 |-> MaxVal])

\* C25 as stated: if BUFFER_SIZE >= 2 x CONTAINER_ALIGNMENT, a size within
\* the buffer implies an alignment within the container's.
C25_Original ==
    probe.BufferSize >= 2 * probe.Alignment =>
        (probe.StructureSize <= probe.BufferSize => probe.MinAlignment <= probe.Alignment)

\* C25: if BUFFER_SIZE < 2 x CONTAINER_ALIGNMENT then, for every type whose
\* size is a positive multiple of its power-of-two alignment, a size within
\* the buffer implies an alignment within the container's, so the placement
\* computed from the size term alone is the one computed from both terms;
\* RequiresMemoryAllocation, which leaves the alignment term out in exactly
\* these builds, yields the result of both terms in every build.
C25_SizeTermSuffices ==
    LET SizeTerm == probe.StructureSize > probe.BufferSize
        AlignmentTerm == probe.MinAlignment > probe.Alignment
    IN  /\ probe.BufferSize < 2 * probe.Alignment =>
              /\ probe.StructureSize <= probe.BufferSize => probe.MinAlignment <= probe.Alignment
              /\ SizeTerm = (SizeTerm \/ AlignmentTerm)
        /\ probe.result = (SizeTerm \/ AlignmentTerm)

\* In a build with a buffer of 12 bytes and a container alignment of 8, a
\* type of size and alignment 16 is probed: it is over-aligned and too large,
\* and placed on the heap.
C25_Witness ==
    /\ probe.BufferSize = 12
    /\ probe.Alignment = 8
    /\ probe.StructureSize = 16
    /\ probe.MinAlignment = 16
    /\ probe.result

RECURSIVE SumOver(_, _)
SumOver(f, S) == IF S = {} THEN 0 ELSE LET x == CHOOSE y \in S : TRUE IN f[x] + SumOver(f, S \ {x})

\* C26: operations that run concurrently on distinct containers are
\* independent.  In every interleaving of their steps no step fails; a
\* thread that has finished its operations finds its container with the
\* descriptor and the value the operations yield when run alone, one after
\* another; and when all threads have finished, the allocations less the
\* frees are those of the operations run one after another, and every block
\* still allocated is the block of one heap-placed value.
C26_DistinctContainersIndependent ==
    /\ Fault = "none"
    /\ \A c \in Containers :
          Threads[c].pc = "idle" =>
              /\ ScriptStruct[c] = Threads[c].type
              /\ Holds(Now, c) = Threads[c].cell
    /\ (\A c \in Containers : Threads[c].pc = "idle") =>
          /\ Allocs - Frees = SumOver([c \in Containers |-> Threads[c].live], Containers)
          /\ \A b \in Blocks :
                Heap[b] # FreeCell =>
                    Cardinality({c \in Containers : StructMemory[c] = HeapPtr(b) /\ Holds(Now, c) = Heap[b]}) = 1

\* Thread 1 is about to free the block of the FTransform it has destroyed
\* while thread 2 has allocated the other block and is about to construct
\* an FTransform in it.
C26_Witness ==
    /\ Threads[1].pc = "Free"
    /\ Threads[2].pc = "InitializeStruct"
    /\ Threads[2].InScriptStruct = "FTransform"
    /\ Threads[1].MemoryPtr.kind = "heap"
    /\ Threads[2].MemoryPtr.kind = "heap"
    /\ Threads[1].MemoryPtr # Threads[2].MemoryPtr
    /\ Fault = "none"

\* C31: in every reachable state GetMemory and GetMutableMemory return the
\* address of the inline buffer when the container holds an inline-placed
\* value, the non-null heap pointer it owns when it holds a heap-placed
\* value, and null when it is empty, the stored pointer being null whenever
\* the descriptor is; they return a pointer and change nothing.
C31_ActiveMemory ==
    Fault = "none" =>
        \A c \in Containers :
            /\ GetMutableMemory(Now, c) = GetMemory(Now, c)
            /\ IF ScriptStruct[c] = nullptr
               THEN /\ GetMemory(Now, c) = NullPtr
                    /\ StructMemory[c] = NullPtr
               ELSE IF RequiresMemoryAllocation(UScriptStruct(ScriptStruct[c]))
               THEN /\ GetMemory(Now, c) = StructMemory[c]
                    /\ GetMemory(Now, c).kind = "heap"
                    /\ Heap[GetMemory(Now, c).at].type = ScriptStruct[c]
                    /\ \A d \in Containers \ {c} : StructMemory[d] # StructMemory[c]
               ELSE /\ GetMemory(Now, c) = BufPtr(c)
                    /\ StructBuffer[c].type = ScriptStruct[c]

\* After a move assignment container 1 holds an FVector in its buffer and
\* container 2 is empty; before it, container 2 held that FVector.
C31_Witness ==
    /\ Fault = "none"
    /\ lastOp.op = "MoveAssign"
    /\ lastOp.dst = 1
    /\ lastOp.src = 2
    /\ ScriptStruct[1] = "FVector"
    /\ GetMemory(Now, 1) = BufPtr(1)
    /\ ScriptStruct[2] = nullptr
    /\ GetMemory(Now, 2) = NullPtr

\* C32: in every reachable state, for every T and both modes, IsTypeOf<T> is
\* true if and only if GetValuePtr<T> returns non-null, and if and only if
\* GetMutableValuePtr<T> does; IsTypeOf returns a boolean and changes
\* nothing.
C32_IsTypeOfMatchesPointers ==
    Fault = "none" =>
        \A c \in Containers : \A T \in Types : \A bExactType \in BOOLEAN :
            /\ IsTypeOf(Now, c, T, bExactType) \in BOOLEAN
            /\ IsTypeOf(Now, c, T, bExactType) <=> GetValuePtr(Now, c, T, bExactType) # NullPtr
            /\ IsTypeOf(Now, c, T, bExactType) <=> GetMutableValuePtr(Now, c, T, bExactType) # NullPtr

\* Container 1 holds an FPlane on the heap: it is an FVector in polymorphic
\* mode only, and the pointers to its FVector part are non-null in that mode
\* only; container 2 holds an FVector itself.
C32_Witness ==
    /\ Fault = "none"
    /\ ScriptStruct[1] = "FPlane"
    /\ ScriptStruct[2] = "FVector"
    /\ IsTypeOf(Now, 1, "FVector", FALSE)
    /\ ~IsTypeOf(Now, 1, "FVector", TRUE)
    /\ GetValuePtr(Now, 1, "FVector", FALSE) = StructMemory[1]
    /\ GetValuePtr(Now, 1, "FVector", TRUE) = NullPtr
    /\ IsTypeOf(Now, 2, "FVector", TRUE)
    /\ GetMutableValuePtr(Now, 2, "FVector", TRUE) = BufPtr(2)

\* The step is a Reset of a container that holds a value.
ResetsValue == Storage'.op = "Reset" /\ Storage.ScriptStruct # nullptr

\* C33 as stated: after Reset every byte of the inline buffer has the value
\* it had immediately after the payload's destroy.
C33_Original ==
    [][ResetsValue => Storage'.StructBuffer = Storage'.Destroyed]_vars

\* C33: after Reset every byte of the inline buffer past the bytes it shares
\* with the heap pointer has the value it had immediately after the
\* payload's destroy; the shared first bytes are those of the null pointer.
C33_ResetKeepsBytesPastPointer ==
    [][ResetsValue =>
          /\ \A i \in (Len(PointerBytes(0)) + 1)..BUFFER_SIZE : Storage'.StructBuffer[i] = Storage'.Destroyed[i]
          /\ SubSeq(Storage'.StructBuffer, 1, Len(PointerBytes(0))) = PointerBytes(0)
          /\ Storage'.ScriptStruct = nullptr]_vars

\* An FVector whose bytes the destructor left in place has just been reset:
\* the first bytes of the buffer are the null pointer's, the rest the
\* FVector's.
C33_Witness ==
    /\ Storage.op = "Reset"
    /\ Storage.ScriptStruct = nullptr
    /\ Storage.Destroyed = [i \in 1..BUFFER_SIZE |-> MaxVal + 1]
    /\ Storage.StructBuffer = [i \in 1..BUFFER_SIZE |-> IF i <= 8 THEN 0 ELSE MaxVal + 1]

\* Where the value of container c was constructed: in the container's own
\* buffer, or in a block the container points at.
PlacedInline(c) == IsValueOf(StructBuffer[c], ScriptStruct[c])

PlacedOnHeap(c) ==
    /\ StructMemory[c].kind = "heap"
    /\ IsValueOf(Heap[StructMemory[c].at], ScriptStruct[c])

\* C34: in every reachable state of a non-empty container the placement
\* recomputed from the current descriptor's size and alignment is the
\* placement the value was constructed with: an inline value recomputes as
\* inline, a heap value as heap, after moves, after Serialize loading and
\* after the first pass of a struct's replacement substituted the descriptor.
C34_PlacementStable ==
    Fault = "none" =>
        \A c \in Containers :
            ScriptStruct[c] # nullptr =>
                /\ PlacedInline(c) # PlacedOnHeap(c)
                /\ PlacedOnHeap(c) <=> RequiresMemoryAllocation(UScriptStruct(ScriptStruct[c]))
                /\ PlacedInline(c) <=> ~RequiresMemoryAllocation(UScriptStruct(ScriptStruct[c]))

\* The first pass has put the duplicate in place of the struct of a
\* heap-placed value that was moved into container 1, while container 2
\* holds an inline value of the other struct.
C34_Witness ==
    /\ Fault = "none"
    /\ lastOp.op = "AddStructReferencedObjects"
    /\ lastOp.dst = 1
    /\ ScriptStruct[1] = "FUserTable_Duplicate"
    /\ PlacedOnHeap(1)
    /\ Heap[StructMemory[1].at].type = "FUserTable"
    /\ AllocatedBy[StructMemory[1].at] = 2
    /\ ScriptStruct[2] = "FUserStruct"
    /\ PlacedInline(2)

\* C35: Serialize in saving mode with no defaults, or with defaults of the
\* container's type, leaves the container's descriptor, storage and payload
\* unchanged; with defaults of another type it first initializes the
\* container to the defaults' type and value and writes that, so the save
\* changes the container.
C35_SaveKeepsOrTakesDefaults ==
    [][lastOp'.op = "SerializeSave" /\ Fault' = "none" =>
          LET c == lastOp'.dst
              StructDefaults == lastOp'.arg
          IN  /\ lastOp'.ret = "true"
              /\ IF StructDefaults = NoDefaults \/ ViewScriptStruct(StructDefaults) = ScriptStruct[c]
                 THEN StorageUnchanged
                 ELSE /\ ScriptStruct'[c] = ViewScriptStruct(StructDefaults)
                      /\ Holds(Now', c) = (IF ViewScriptStruct(StructDefaults) = nullptr
                                           THEN RawCell
                                           ELSE StructDefaults)
                      /\ RefName(Ar'.data[Ar.pos + 1]) = ViewScriptStruct(StructDefaults)
                      /\ Ar'.log[Len(Ar'.log)].cell = Holds(Now', c)
                      /\ ~StorageUnchanged]_vars

\* A container that held an inline value has been saved with defaults of a
\* heap-placed type: it destroyed its value and now holds the defaults.
C35_Witness ==
    /\ Fault = "none"
    /\ lastOp.op = "SerializeSave"
    /\ lastOp.arg = Obj("FTransform", [i \in 1..NumFields("FTransform") |-> MaxVal])
    /\ CountOf(lastOp.trace, "DestroyStruct") = 1
    /\ CountOf(lastOp.trace, "Malloc") = 1
    /\ ScriptStruct[lastOp.dst] = "FTransform"
    /\ Holds(Now, lastOp.dst) = lastOp.arg

\* The calls of a trace, without their arguments.
CallNames(tr) == [i \in DOMAIN tr |-> tr[i].ev]

\* C36: the typed InitializeAs<T>(args) on a container whose descriptor is
\* already that of T destroys the value and constructs the new one at the
\* same address, with no allocation and no free; on an empty container or
\* one of another type it resets first, allocates exactly one block if and
\* only if T is heap-placed, and ends valid with the descriptor of T.
C36_TypedInitializeAs ==
    [][lastOp'.op = "InitializeAsT" /\ Fault' = "none" =>
          LET c == lastOp'.dst
              T == lastOp'.type
              tr == lastOp'.trace
              n == Len(Reset(Now, c).Trace)
          IN  /\ IsValid(Now', c)
              /\ ScriptStruct'[c] = T
              /\ Holds(Now', c) = lastOp'.arg
              /\ IF ScriptStruct[c] = T
                 THEN /\ CallNames(tr) = <<"DestroyStruct", "Construct">>
                      /\ tr[1].at = GetMemory(Now, c) /\ tr[1].type = T
                      /\ tr[2].at = GetMemory(Now, c) /\ tr[2].type = T
                      /\ GetMemory(Now', c) = GetMemory(Now, c)
                      /\ Allocs' = Allocs /\ Frees' = Frees
                 ELSE /\ SubSeq(tr, 1, n) = Reset(Now, c).Trace
                      /\ CountOf(SubSeq(tr, 1, n), "DestroyStruct") = (IF ScriptStruct[c] # nullptr THEN 1 ELSE 0)
                      /\ CallNames(SubSeq(tr, n + 1, Len(tr)))
                            = (IF TypeRequiresMemoryAllocation(T)
                               THEN <<"ScriptStruct", "Malloc", "Construct">>
                               ELSE <<"ScriptStruct", "Construct">>)
                      /\ Allocs' = Allocs + (IF TypeRequiresMemoryAllocation(T) THEN 1 ELSE 0)
                      /\ Frees' = Frees + (IF GetMemory(Now, c).kind = "heap" THEN 1 ELSE 0)
                      /\ TypeRequiresMemoryAllocation(T) <=> GetMemory(Now', c).kind = "heap"
                      /\ tr[Len(tr)].at = GetMemory(Now', c)]_vars

\* A heap-placed FTransform has been replaced in its block by another one.
C36_Witness ==
    /\ Fault = "none"
    /\ lastOp.op = "InitializeAsT"
    /\ lastOp.type = "FTransform"
    /\ CallNames(lastOp.trace) = <<"DestroyStruct", "Construct">>
    /\ lastOp.trace[2].at = StructMemory[lastOp.dst]
    /\ StructMemory[lastOp.dst].kind = "heap"
    /\ Heap[StructMemory[lastOp.dst].at] = lastOp.arg
    /\ lastOp.arg.val[1] = MaxVal

\* The containers that hold a heap-placed value.
HeapPlaced == {c \in Slots : ScriptStruct[c] # nullptr /\ StructMemory[c].kind = "heap"}

\* C37: in every reachable state of a system of several containers, after
\* any sequence of initializations, resets, copies, moves, Serialize loads
\* and destructions, the number of allocations less the number of frees is
\* the number of containers that hold a heap-placed value, each in a block
\* of its own; once every container is destroyed it is zero.
C37_LiveBlocksMatchHeapValues ==
    Fault = "none" =>
        /\ Allocs - Frees = Cardinality(HeapPlaced)
        /\ Cardinality({StructMemory[c].at : c \in HeapPlaced}) = Cardinality(HeapPlaced)
        /\ \A c \in HeapPlaced : RequiresMemoryAllocation(UScriptStruct(ScriptStruct[c]))
        /\ \A c \in Slots \ HeapPlaced :
              ScriptStruct[c] # nullptr => ~RequiresMemoryAllocation(UScriptStruct(ScriptStruct[c]))
        /\ AllEmpty => Allocs - Frees = 0

\* One of two containers that held heap-placed values has been destroyed:
\* two blocks were allocated, one is freed, one container holds the other.
C37_Witness ==
    /\ Fault = "none"
    /\ lastOp.op = "Destructor"
    /\ Allocs = 2
    /\ Frees = 1
    /\ lastOp.dst = 1
    /\ ScriptStruct[1] = nullptr
    /\ HeapPlaced = {2}

\* C38: ImportTextItem of the text None in any case, of an empty struct name
\* or of the marker () ends with an empty container and returns true; of a
\* struct path name that cannot be loaded, or of a token that cannot be read,
\* it returns false and leaves the container's descriptor and value as they
\* were; ExportTextItem of an empty container writes None.
C38_TextNone ==
    [][Fault' = "none" =>
          LET c == lastOp'.dst
          IN  /\ lastOp'.op = "ImportTextItem" /\ Text.Buffer \in NoneTexts \cup EmptyNameTexts =>
                    /\ lastOp'.ret = "true"
                    /\ ScriptStruct'[c] = nullptr
                    /\ GetMemory(Now', c) = NullPtr
                    /\ Allocs' = Allocs
                    /\ Frees' = Frees + (IF GetMemory(Now, c).kind = "heap" THEN 1 ELSE 0)
                    /\ Text'.Buffer = <<>>
              /\ lastOp'.op = "ImportTextItem" /\ Text.Buffer \in UnloadableTexts \cup UnreadableTexts =>
                    /\ lastOp'.ret = "false"
                    /\ StorageUnchanged
                    /\ lastOp'.trace = <<>>
              /\ lastOp'.op = "ExportTextItem" /\ ScriptStruct[c] = nullptr =>
                    /\ lastOp'.ret = "true"
                    /\ Text'.ValueStr = Text.ValueStr \o <<"N", "o", "n", "e">>
                    /\ StorageUnchanged]_vars

\* A container that held a heap-placed value has imported a text that names
\* no struct and read it to its end: its block is freed and it is empty.
C38_Witness ==
    /\ Fault = "none"
    /\ lastOp.op = "ImportTextItem"
    /\ lastOp.ret = "true"
    /\ CountOf(lastOp.trace, "Free") = 1
    /\ ScriptStruct[lastOp.dst] = nullptr
    /\ Text.Buffer = <<>>
    /\ Text.ValueStr = <<>>
    /\ Allocs = 1
    /\ Frees = 1

====
